---- MODULE Spec2Model ----
(***************************************************************************)
(* A model of the VoidLink tunnel relay core (internal/tunnel): the        *)
(* routing tables of Server, tunnel registration, the control-channel      *)
(* AUTH handshake, the TCP rendezvous of the Minecraft/HTTP proxies with   *)
(* DATA connections, and the byte relay.                                   *)
(***************************************************************************)
EXTENDS Integers, Sequences, FiniteSets, TLC

(***************************************************************************)
(* Bounds of the model.                                                    *)
(***************************************************************************)
\* pending startUDPPortListener goroutines at one time
MaxGo == 2
\* inbound connections on the control port that send AUTH
MaxConns == 2
\* public TCP connections accepted by the Minecraft and HTTP proxies
MaxPubs == 1
\* inbound connections on the control port that send DATA
MaxData == 2
\* distinct values generateID returns
MaxIDs == 2
\* bytes a peer of a relayed pair writes, and bytes the proxy has pre-read
MaxLen == 2
\* PING sends of one pingLoop
MaxPings == 2
\* UDP packets relayed to one client
MaxPkts == 1
\* words and blanks of a first line
MaxWords == 2
\* conn.Write calls one line can need: bufio's buffer holds 4096 bytes and a
\* UDP_PKT line carries up to 2 * 65535 hex digits
MaxChunks == 2
\* hex digits in the payload operand of a UDP_REPLY
MaxHex == 2
\* proxy handlers that call generateID
MaxCalls == 2
\* times the value of time.Now().UnixNano() changes
MaxTicks == 3
\* characters of the server address of a handshake or of a Host header
MaxAddrLen == 5

\* The value mc_proxy.go falls back to when a tunnel has no mc_local_port.
DefaultMCPort == 25565

Tunnels == {"t1", "t2"}
Subdomains == {"s1", "s2"}
NoTunnel == "none"
\* udp_public_port values of the pool; 0 models a nil *int
UDPPorts == {20777}
HTTPPorts == {8123}
UDPLocalPorts == {24454}

\* TunnelRegistration values the registry may pass to RegisterTunnel.
Registrations ==
    [TunnelID : Tunnels, Subdomain : Subdomains, MCLocalPort : {DefaultMCPort},
     HTTPLocalPort : HTTPPorts \cup {0}, UDPLocalPort : UDPLocalPorts,
     UDPPublicPort : UDPPorts \cup {0}]

VARIABLES
    \* ---- Server routing tables (sync.Map each); 0 / "none" = no entry
    subdomainMap,     \* subdomain -> tunnelID
    tunnelMCPort,     \* tunnelID -> mc_local_port
    tunnelHTTPPort,   \* tunnelID -> http_local_port
    portOwners,       \* public_port -> tunnelID
    portLocalMap,     \* public_port -> local_port
    udpListeners,     \* set of public ports that have a PacketConn stored
    \* ---- UDP listener goroutines and sockets
    udpGo,            \* sequence of started startUDPPortListener goroutines
    udpBound,         \* public ports on which a PacketConn of the server is open
    \* ---- history of the registry's calls
    registered,       \* tunnelID -> its registration, while registered
    undo,             \* the last register (with the tables before it)
    observe,          \* whether undo is recorded in this behaviour
    hist,             \* ghost: the registrations made and the UnregisterTunnel
                      \* calls observed, when hist.on
    \* ---- control channels: connections that sent AUTH <token> <tunnel_id>
    clients,          \* tunnelID -> ClientConn (a connection number, 0 = none)
    cpc,              \* where the connection's handler goroutine stands
    ctok,             \* the token of its AUTH line
    ctun,             \* the tunnel_id of its AUTH line
    cstream,          \* its net.Conn: "none" (not accepted), "open", "closed"
    cout,             \* the lines the server wrote on it
    cbefore,          \* the last client stored for its tunnel_id when it arrived
    lastStored,       \* tunnelID -> the connection of the last clients.Store
    csaw,             \* its tunnel_id was a value of subdomainMap at the check
    pendingTCP,       \* ClientConn -> connID -> the rendezvous channel stored
                      \* (named by the public connection that made it; 0 = none)
    \* ---- public connections of the proxies (handleMCConnection,
    \* ---- handleHTTPConnection)
    ppc,              \* where the handler goroutine stands
    pkind,            \* "mc" or "http"
    ptun,             \* the tunnelID its subdomain resolved to
    pclient,          \* the ClientConn it loaded from clients
    pid,              \* its connID
    pport,            \* the local port of its OPEN
    pstream,          \* its net.Conn: "none", "open", "closed"
    dataCh,           \* its channel of capacity 1: the data connection in it
    pdata,            \* the data connection it received from the channel
    ptimedout,        \* its select took the time.After branch
    pgot,             \* every data connection ever sent into its channel
    \* ---- connections on the control port that sent DATA <conn_id>
    dpc,              \* where the handler goroutine stands
    did,              \* the conn_id of its DATA line
    dfound,           \* the ClientConn the search over clients found
    dstream,          \* its net.Conn: "none", "open", "closed"
    \* ---- one relayed pair: relay(a, b) with a the public connection and b
    \* ---- the data connection
    rpc,              \* "none", "paired" (dataConn received), "relaying", "closed"
    buffered,         \* the bytes the proxy read from a before the pairing
    written,          \* side -> the bytes its peer has written since
    unread,           \* side -> the bytes written that no Read has returned
    out,              \* side -> the bytes the server has written to it
    fin,              \* side -> its peer has finished writing (Read ends in EOF)
    cpDone,           \* the sides whose cp goroutine (as src) has ended
    \* ---- keepalive of a control connection
    cdeadline,        \* conn -> keepalive intervals left until its pending
                      \* read in readControlLoop times out
    pingpc,           \* conn -> its pingLoop: "off", "running", "stopped"
    npings,           \* conn -> the PING sends its pingLoop has tried
    cponged,          \* ghost: conn -> it has sent a PONG
    sendFailed,       \* ghost: conn -> a client.send on it has failed
    \* ---- UDP sessions
    udpPlayerMap,     \* player address (conn_id) -> its udpPlayerEntry: the
                      \* public port of its PacketConn and whether that
                      \* PacketConn has been closed
    udpReply,         \* player address -> outcome of the last UDP_REPLY
    udpLoop,          \* public port -> the tunnelID and localPort that the
                      \* goroutine reading its stored PacketConn was given
    udpPkt,           \* operands of the last UDP_PKT line sent to a client
    udpOut,           \* the last datagram written by a PacketConn's WriteTo
    \* ---- first line of a connection on the control port
    cfirst,           \* conn -> why handleNewConn ended on its first line
    \* ---- shutdown
    ctxDone,          \* the context given to Run has been cancelled
    lopen,            \* the TCP listeners of Run and the proxies that are open
    accepting,        \* the TCP listeners whose accept loop is running
    \* ---- the writes on a client's control connection, one conn.Write each
    mu,               \* ClientConn.mu: "unlocked", else the sender holding it
    wpc,              \* sender -> position in ClientConn.send
    wleft,            \* sender -> conn.Write calls its line still needs
    wire,             \* the conn.Write calls on the stream, in order
    \* ---- conn_id allocation of the proxy handlers
    clock,            \* the value time.Now().UnixNano() returns
    gpc,              \* handler -> "idle", "pending" (connID stored), "done"
    gid,              \* handler -> the connID generateID returned to it
    \* ---- the Minecraft handshake of a public connection
    hsIn,             \* public connection -> the bytes its peer sent
    hsOut,            \* public connection -> what parseMinecraftHandshake
                      \* returned on them
    \* ---- the subdomain of a public connection
    exIn,             \* public connection -> the address and base domain
                      \* its handler gave extractSubdomainFromAddr
    exOut             \* public connection -> the subdomain returned

regVars == <<subdomainMap, tunnelMCPort, tunnelHTTPPort, portOwners,
             portLocalMap, udpListeners, udpGo, udpBound, registered, undo,
             observe, hist>>

ctlVars == <<clients, cpc, ctok, ctun, cstream, cout, cbefore, lastStored, csaw>>

pubVars == <<ppc, pkind, ptun, pclient, pid, pport, pstream, dataCh, pdata,
             ptimedout, pgot>>

dataVars == <<dpc, did, dfound, dstream>>

relayVars == <<rpc, buffered, written, unread, out, fin, cpDone>>

kaVars == <<cdeadline, pingpc, npings, cponged, sendFailed>>

udpVars == <<udpPlayerMap, udpReply, udpLoop, udpPkt, udpOut>>

shutVars == <<ctxDone, lopen, accepting>>

wrVars == <<mu, wpc, wleft, wire>>

idVars == <<clock, gpc, gid>>

hsVars == <<hsIn, hsOut>>

exVars == <<exIn, exOut>>

moreVars == <<idVars, hsVars, exVars>>

restVars == <<shutVars, wrVars, moreVars>>

extVars == <<kaVars, udpVars, cfirst, restVars>>

vars == <<regVars, ctlVars, pendingTCP, pubVars, dataVars, relayVars, extVars>>

Pubs == 1..MaxPubs
DataConns == 1..MaxData
ConnIDs == 1..MaxIDs

Conns == 1..MaxConns
Tokens == {"valid", "forged"}
Sides == {"a", "b"}
Bytes == {"x", "y"}

NoReg == [TunnelID |-> NoTunnel]
NoUndo == [phase |-> "none"]
NoCall == [tunnelID |-> NoTunnel]
NoHist == [on |-> FALSE, ever |-> {}, never |-> NoCall, closed |-> 0]

\* The six routing tables named by the registry contract, as one value.
Tables ==
    [subdomainMap |-> subdomainMap, tunnelMCPort |-> tunnelMCPort,
     tunnelHTTPPort |-> tunnelHTTPPort, portOwners |-> portOwners,
     portLocalMap |-> portLocalMap, udpListeners |-> udpListeners]

\* State after NewServer: every table empty.
InitTables ==
    /\ subdomainMap = [s \in Subdomains |-> NoTunnel]
    /\ tunnelMCPort = [t \in Tunnels |-> 0]
    /\ tunnelHTTPPort = [t \in Tunnels |-> 0]
    /\ portOwners = [p \in UDPPorts |-> NoTunnel]
    /\ portLocalMap = [p \in UDPPorts |-> 0]
    /\ udpListeners = {}
    /\ udpGo = <<>>
    /\ udpBound = {}
    /\ registered = [t \in Tunnels |-> NoReg]
    /\ undo = NoUndo

InitReg == InitTables /\ hist = NoHist

\* The read deadline of readControlLoop in keepalive intervals
\* (pingInterval * 2).
DeadlineTicks == 2

\* The listeners of Run, startMCProxy and startHTTPProxy.
TCPListeners == {"control", "mc", "http"}

\* The player addresses that send UDP packets.
Addrs == {"a1", "a2"}

NoEntry == [port |-> 0, addr |-> "", closed |-> FALSE]

NoLoop == [tunnelID |-> NoTunnel, localPort |-> 0]

NoPkt == [connID |-> "", localPort |-> 0]

NoDatagram == [port |-> 0, addr |-> "", data |-> <<>>]

\* No UDP packet has arrived and no connection has ended on its first line.
\* The goroutines that call ClientConn.send: pingLoop, a proxy task, a UDP
\* packet task.
Senders == {"PING", "OPEN", "UDP_PKT"}

InitUDPLine ==
    /\ udpPlayerMap = [a \in Addrs |-> NoEntry]
    /\ udpReply = [a \in Addrs |-> "none"]
    /\ udpLoop = [p \in UDPPorts |-> NoLoop]
    /\ udpPkt = NoPkt
    /\ udpOut = NoDatagram
    /\ cfirst = [c \in Conns |-> "none"]
    /\ ctxDone = FALSE
    /\ lopen = TCPListeners
    /\ accepting = TCPListeners
    /\ mu = "unlocked"
    /\ wpc = [w \in Senders |-> "idle"]
    /\ wleft = [w \in Senders |-> 0]
    /\ wire = <<>>
    /\ clock = 0
    /\ gpc = [k \in 1..MaxCalls |-> "idle"]
    /\ gid = [k \in 1..MaxCalls |-> <<>>]
    /\ hsIn = [x \in 1..MaxPubs |-> <<>>]
    /\ hsOut = [x \in 1..MaxPubs |-> <<>>]
    /\ exIn = [x \in 1..MaxPubs |-> <<>>]
    /\ exOut = [x \in 1..MaxPubs |-> <<>>]

\* No client is connected and no connection has arrived.
InitCtl ==
    /\ cdeadline = [c \in Conns |-> DeadlineTicks]
    /\ pingpc = [c \in Conns |-> "off"]
    /\ npings = [c \in Conns |-> 0]
    /\ cponged = [c \in Conns |-> FALSE]
    /\ sendFailed = [c \in Conns |-> FALSE]
    /\ InitUDPLine
    /\ clients = [t \in Tunnels |-> 0]
    /\ cpc = [c \in Conns |-> "new"]
    /\ ctok = [c \in Conns |-> "valid"]
    /\ ctun = [c \in Conns |-> NoTunnel]
    /\ cstream = [c \in Conns |-> "none"]
    /\ cout = [c \in Conns |-> <<>>]
    /\ cbefore = [c \in Conns |-> 0]
    /\ lastStored = [t \in Tunnels |-> 0]
    /\ csaw = [c \in Conns |-> FALSE]
    /\ pendingTCP = [c \in Conns |-> [id \in ConnIDs |-> 0]]

\* No public connection and no DATA connection has arrived.
InitRdv ==
    /\ ppc = [x \in Pubs |-> "new"]
    /\ pkind = [x \in Pubs |-> "mc"]
    /\ ptun = [x \in Pubs |-> NoTunnel]
    /\ pclient = [x \in Pubs |-> 0]
    /\ pid = [x \in Pubs |-> 0]
    /\ pport = [x \in Pubs |-> 0]
    /\ pstream = [x \in Pubs |-> "none"]
    /\ dataCh = [x \in Pubs |-> 0]
    /\ pdata = [x \in Pubs |-> 0]
    /\ ptimedout = [x \in Pubs |-> FALSE]
    /\ pgot = [x \in Pubs |-> {}]
    /\ dpc = [d \in DataConns |-> "new"]
    /\ did = [d \in DataConns |-> 0]
    /\ dfound = [d \in DataConns |-> 0]
    /\ dstream = [d \in DataConns |-> "none"]

\* No pair is relayed.
InitRelay ==
    /\ rpc = "none"
    /\ buffered = <<>>
    /\ written = [s \in Sides |-> <<>>]
    /\ unread = [s \in Sides |-> <<>>]
    /\ out = [s \in Sides |-> <<>>]
    /\ fin = [s \in Sides |-> FALSE]
    /\ cpDone = {}

\* Server.IsUDPPortInUse
IsUDPPortInUse(p) == portOwners[p] # NoTunnel

\* Server.IsClientConnected
IsClientConnected(t) == clients[t] # 0

\* RegisterTunnel's guard for starting a listener: none stored for the port.
ListenerNotRunning(p) == p \notin udpListeners

\* Server.RegisterTunnel.  The goroutine it starts is appended to udpGo.
RegisterTunnel(reg) ==
    LET p == reg.UDPPublicPort
        start == p # 0 /\ ListenerNotRunning(p)
    IN  /\ start => Len(udpGo) < MaxGo
        /\ subdomainMap' = [subdomainMap EXCEPT ![reg.Subdomain] = reg.TunnelID]
        /\ tunnelMCPort' = [tunnelMCPort EXCEPT ![reg.TunnelID] = reg.MCLocalPort]
        /\ tunnelHTTPPort' = [tunnelHTTPPort EXCEPT ![reg.TunnelID] = reg.HTTPLocalPort]
        /\ IF start
           THEN /\ portOwners' = [portOwners EXCEPT ![p] = reg.TunnelID]
                /\ portLocalMap' = [portLocalMap EXCEPT ![p] = reg.UDPLocalPort]
                /\ udpGo' = Append(udpGo, [port |-> p, tunnelID |-> reg.TunnelID,
                                           localPort |-> reg.UDPLocalPort,
                                           bound |-> FALSE])
           ELSE UNCHANGED <<portOwners, portLocalMap, udpGo>>
        /\ UNCHANGED <<udpListeners, udpBound>>
        /\ UNCHANGED <<ctlVars, pendingTCP, pubVars, dataVars, relayVars, extVars>>

\* No table has an entry under the keys of reg, and no socket is bound to its
\* port.
Fresh(reg) ==
    /\ subdomainMap[reg.Subdomain] = NoTunnel
    /\ tunnelMCPort[reg.TunnelID] = 0 /\ tunnelHTTPPort[reg.TunnelID] = 0
    /\ reg.UDPPublicPort # 0 =>
          /\ portOwners[reg.UDPPublicPort] = NoTunnel
          /\ portLocalMap[reg.UDPPublicPort] = 0
          /\ reg.UDPPublicPort \notin udpListeners \cup udpBound

\* The tunnels table keeps subdomain and udp_public_port UNIQUE: no other
\* active tunnel has the subdomain or the UDP port of reg.
UniqueAmongActive(reg) ==
    \A t \in Tunnels \ {reg.TunnelID} :
        registered[t] # NoReg =>
            /\ registered[t].Subdomain # reg.Subdomain
            /\ reg.UDPPublicPort # 0 =>
                   registered[t].UDPPublicPort # reg.UDPPublicPort

\* TunnelService.StartTunnel: RegisterTunnel with the fields of the tunnel.
\* A tunnel's fields do not change while it is active, so a repeated start
\* passes the same registration.
StartTunnel(reg) ==
    /\ registered[reg.TunnelID] \in {NoReg, reg}
    /\ UniqueAmongActive(reg)
    /\ RegisterTunnel(reg)
    /\ registered' = [registered EXCEPT ![reg.TunnelID] = reg]
    /\ undo' = IF observe /\ udpGo = <<>> /\ Fresh(reg)
               THEN [phase |-> "registered", reg |-> reg, before |-> Tables,
                     bound |-> udpBound]
               ELSE NoUndo
    /\ hist' = IF hist.on THEN [hist EXCEPT !.ever = @ \cup {reg}] ELSE hist
    /\ UNCHANGED observe

\* LoadAndDelete on udpListeners followed by Close of the PacketConn found.
\* The entries of udpPlayerMap stay; those that hold the PacketConn now hold
\* a closed one.
CloseListener(p) ==
    /\ udpListeners' = udpListeners \ {p}
    /\ udpBound' = IF p \in udpListeners THEN udpBound \ {p} ELSE udpBound
    /\ udpPlayerMap' =
          [a \in Addrs |->
              IF p \in udpListeners /\ udpPlayerMap[a] # NoEntry
                                    /\ udpPlayerMap[a].port = p
              THEN [udpPlayerMap[a] EXCEPT !.closed = TRUE]
              ELSE udpPlayerMap[a]]
    /\ udpLoop' = IF p \in udpListeners THEN [udpLoop EXCEPT ![p] = NoLoop]
                  ELSE udpLoop

\* Mutant of CloseClientOf: the client found is not closed.
CloseClientOf_NoClose(tunnelID) == cstream' = cstream

\* ClientConn.close of the client LoadAndDelete found under tunnelID, if any.
CloseClientOf(tunnelID) ==
    cstream' = [c \in Conns |->
                  IF c = clients[tunnelID] THEN "closed" ELSE cstream[c]]

\* No RegisterTunnel has named the tunnel_id, the subdomain or the port.
NeverRegistered(tunnelID, subdomain, udpPublicPort) ==
    \A reg \in hist.ever :
        /\ reg.TunnelID # tunnelID
        /\ reg.Subdomain # subdomain
        /\ udpPublicPort # 0 => reg.UDPPublicPort # udpPublicPort

\* hist after a call of UnregisterTunnel with these arguments: the last call
\* for arguments never registered, and the client that the last call for a
\* tunnel with a connected client found.
Called(tunnelID, subdomain, udpPublicPort) ==
    IF ~hist.on THEN hist
    ELSE IF NeverRegistered(tunnelID, subdomain, udpPublicPort)
    THEN [hist EXCEPT !.never =
             [tunnelID |-> tunnelID, subdomain |-> subdomain,
              udpPublicPort |-> udpPublicPort,
              connected |-> {t \in Tunnels : clients[t] # 0}]]
    ELSE IF clients[tunnelID] # 0
    THEN [hist EXCEPT !.closed = clients[tunnelID]]
    ELSE hist

\* Server.UnregisterTunnel
UnregisterTunnel(tunnelID, subdomain, udpPublicPort) ==
    /\ subdomainMap' = [subdomainMap EXCEPT ![subdomain] = NoTunnel]
    /\ tunnelMCPort' = [tunnelMCPort EXCEPT ![tunnelID] = 0]
    /\ tunnelHTTPPort' = [tunnelHTTPPort EXCEPT ![tunnelID] = 0]
    /\ IF udpPublicPort # 0
       THEN /\ portOwners' = [portOwners EXCEPT ![udpPublicPort] = NoTunnel]
            /\ portLocalMap' = [portLocalMap EXCEPT ![udpPublicPort] = 0]
            /\ CloseListener(udpPublicPort)
       ELSE UNCHANGED <<portOwners, portLocalMap, udpListeners, udpBound,
                        udpPlayerMap, udpLoop>>
    /\ clients' = [clients EXCEPT ![tunnelID] = 0]
    /\ CloseClientOf(tunnelID)
    /\ UNCHANGED <<udpGo, cpc, ctok, ctun, cout, cbefore, lastStored, csaw>>
    /\ UNCHANGED <<pendingTCP, pubVars, dataVars, relayVars, kaVars, udpReply,
                   udpPkt, udpOut, cfirst, restVars>>

\* TunnelService.StopTunnel: UnregisterTunnel with the fields of the tunnel's
\* registration.
StopTunnel(tunnelID) ==
    LET reg == registered[tunnelID]
    IN  /\ reg # NoReg
        /\ UnregisterTunnel(reg.TunnelID, reg.Subdomain, reg.UDPPublicPort)
        /\ registered' = [registered EXCEPT ![tunnelID] = NoReg]
        /\ undo' = IF undo.phase = "registered" /\ undo.reg = reg
                   THEN [undo EXCEPT !.phase = "unregistered"]
                   ELSE NoUndo
        /\ hist' = Called(reg.TunnelID, reg.Subdomain, reg.UDPPublicPort)
        /\ UNCHANGED observe

\* A call of UnregisterTunnel with arguments of the caller's choice: the
\* method takes any tunnel_id, subdomain and port (0 = nil).
UnregisterCall(tunnelID, subdomain, udpPublicPort) ==
    /\ UnregisterTunnel(tunnelID, subdomain, udpPublicPort)
    /\ hist' = Called(tunnelID, subdomain, udpPublicPort)
    /\ registered' =
          [t \in Tunnels |->
              IF \/ t = tunnelID
                 \/ registered[t] # NoReg /\ registered[t].Subdomain = subdomain
                 \/ /\ registered[t] # NoReg /\ udpPublicPort # 0
                    /\ registered[t].UDPPublicPort = udpPublicPort
              THEN NoReg ELSE registered[t]]
    /\ undo' = NoUndo
    /\ UNCHANGED observe

RemoveAt(s, i) == SubSeq(s, 1, i - 1) \o SubSeq(s, i + 1, Len(s))

\* Mutant of UDPListen: ListenPacket succeeds on a port already bound.
UDPListen_BindsAgain(i) ==
    /\ i \in 1..Len(udpGo)
    /\ ~udpGo[i].bound
    /\ udpGo' = [udpGo EXCEPT ![i].bound = TRUE]
    /\ udpBound' = udpBound \cup {udpGo[i].port}
    /\ UNCHANGED <<subdomainMap, tunnelMCPort, tunnelHTTPPort, portOwners,
                   portLocalMap, udpListeners, registered, undo, observe, hist>>
    /\ UNCHANGED <<ctlVars, pendingTCP, pubVars, dataVars, relayVars, extVars>>

\* startUDPPortListener up to net.ListenPacket: binds the port, or returns
\* when the port is already bound.
UDPListen(i) ==
    /\ i \in 1..Len(udpGo)
    /\ ~udpGo[i].bound
    /\ IF udpGo[i].port \in udpBound
       THEN /\ udpGo' = RemoveAt(udpGo, i)
            /\ UNCHANGED udpBound
       ELSE /\ udpGo' = [udpGo EXCEPT ![i].bound = TRUE]
            /\ udpBound' = udpBound \cup {udpGo[i].port}
    /\ UNCHANGED <<subdomainMap, tunnelMCPort, tunnelHTTPPort, portOwners,
                   portLocalMap, udpListeners, registered, undo, observe, hist>>
    /\ UNCHANGED <<ctlVars, pendingTCP, pubVars, dataVars, relayVars, extVars>>

\* startUDPPortListener's udpListeners.Store; the goroutine then sits in its
\* read loop until the PacketConn is closed.
UDPStore(i) ==
    /\ i \in 1..Len(udpGo)
    /\ udpGo[i].bound
    /\ udpListeners' = udpListeners \cup {udpGo[i].port}
    /\ udpLoop' = [udpLoop EXCEPT ![udpGo[i].port] =
                      [tunnelID |-> udpGo[i].tunnelID,
                       localPort |-> udpGo[i].localPort]]
    /\ udpGo' = RemoveAt(udpGo, i)
    /\ UNCHANGED <<subdomainMap, tunnelMCPort, tunnelHTTPPort, portOwners,
                   portLocalMap, udpBound, registered, undo, observe, hist>>
    /\ UNCHANGED <<ctlVars, pendingTCP, pubVars, dataVars, relayVars>>
    /\ UNCHANGED <<kaVars, udpPlayerMap, udpReply, udpPkt, udpOut, cfirst, restVars>>

(***************************************************************************)
(* The control channel: handleNewConn on "AUTH <token> <tunnel_id>" and    *)
(* handleControlConnFromReader.                                            *)
(***************************************************************************)

\* Server.validateJWT: nil exactly for a token the HMAC key verifies.
validateJWT(tok) == tok = "valid"

\* Mutant of IsRegistered: some tunnel is the value of a subdomain.
IsRegistered_AnyTunnel(tunnelID) == \E s \in Subdomains : subdomainMap[s] # NoTunnel

\* The Range over subdomainMap: tunnelID is the value of some subdomain.
IsRegistered(tunnelID) == \E s \in Subdomains : subdomainMap[s] = tunnelID

\* Mutant of AuthReply: the registration check made before the token check.
AuthReply_RegistrationFirst(tok, tunnelID) ==
    IF ~IsRegistered(tunnelID) THEN "ERROR tunnel not active"
    ELSE IF ~validateJWT(tok) THEN "ERROR unauthorized"
    ELSE ""

\* The reply of the two checks that open handleControlConnFromReader:
\* "" when both pass.
AuthReply(tok, tunnelID) ==
    IF ~validateJWT(tok) THEN "ERROR unauthorized"
    ELSE IF ~IsRegistered(tunnelID) THEN "ERROR tunnel not active"
    ELSE ""

\* The handler of connection d has done clients.Store(tunnelID, d).
Stored(d, tunnelID) ==
    /\ ctun[d] = tunnelID
    /\ ctok[d] = "valid" /\ csaw[d]
    /\ cpc[d] \in {"ok", "reading", "cleanup", "done"}

\* A connection arrives with AUTH tok tunnelID: the token and registration
\* checks; on failure the ERROR line is written and the connection closed.
AuthHandshake(c, tok, tunnelID) ==
    /\ "control" \in lopen
    /\ cpc[c] = "new"
    /\ cbefore' = [cbefore EXCEPT ![c] = lastStored[tunnelID]]
    /\ \A d \in Conns : d < c => cpc[d] # "new"
    /\ ctok' = [ctok EXCEPT ![c] = tok]
    /\ ctun' = [ctun EXCEPT ![c] = tunnelID]
    /\ csaw' = [csaw EXCEPT ![c] = \E s \in Subdomains : subdomainMap[s] = tunnelID]
    /\ LET reply == AuthReply(tok, tunnelID)
       IN  IF reply # ""
           THEN /\ cout' = [cout EXCEPT ![c] = <<reply>>]
                /\ cstream' = [cstream EXCEPT ![c] = "closed"]
                /\ cpc' = [cpc EXCEPT ![c] = "done"]
           ELSE /\ cpc' = [cpc EXCEPT ![c] = "replace"]
                /\ cstream' = [cstream EXCEPT ![c] = "open"]
                /\ UNCHANGED cout
    /\ UNCHANGED <<clients, lastStored>>
    /\ UNCHANGED <<regVars, pendingTCP, pubVars, dataVars, relayVars, extVars>>

\* clients.LoadAndDelete(tunnelID) and close of the old client found.
AuthLoadAndDelete(c) ==
    /\ cpc[c] = "replace"
    /\ clients' = [clients EXCEPT ![ctun[c]] = 0]
    /\ CloseClientOf(ctun[c])
    /\ cpc' = [cpc EXCEPT ![c] = "store"]
    /\ UNCHANGED <<ctok, ctun, cout, cbefore, lastStored, csaw>>
    /\ UNCHANGED <<regVars, pendingTCP, pubVars, dataVars, relayVars, extVars>>

\* clients.Store(tunnelID, client)
AuthStore(c) ==
    /\ cpc[c] = "store"
    /\ clients' = [clients EXCEPT ![ctun[c]] = c]
    /\ lastStored' = [lastStored EXCEPT ![ctun[c]] = c]
    /\ cpc' = [cpc EXCEPT ![c] = "ok"]
    /\ UNCHANGED <<ctok, ctun, cstream, cout, cbefore, csaw>>
    /\ UNCHANGED <<regVars, pendingTCP, pubVars, dataVars, relayVars, extVars>>

\* conn.Write("OK\n"); the handler then starts pingLoop and runs
\* readControlLoop, which sets its first read deadline.  A write on a closed
\* connection fails and writes nothing.
AuthWriteOK(c) ==
    /\ cpc[c] = "ok"
    /\ cout' = [cout EXCEPT ![c] = IF cstream[c] = "open" THEN Append(@, "OK") ELSE @]
    /\ cpc' = [cpc EXCEPT ![c] = "reading"]
    /\ pingpc' = [pingpc EXCEPT ![c] = "running"]
    /\ cdeadline' = [cdeadline EXCEPT ![c] = DeadlineTicks]
    /\ UNCHANGED <<clients, ctok, ctun, cstream, cbefore, lastStored, csaw>>
    /\ UNCHANGED <<npings, cponged, sendFailed, udpVars, cfirst, restVars>>
    /\ UNCHANGED <<regVars, pendingTCP, pubVars, dataVars, relayVars>>

\* readControlLoop returns: a read failed (the peer went away, the read
\* deadline passed, or the connection was closed under it).
ReadLoopEnd(c) ==
    /\ cpc[c] = "reading"
    /\ cpc' = [cpc EXCEPT ![c] = "cleanup"]
    /\ UNCHANGED <<clients, ctok, ctun, cstream, cout, cbefore, lastStored, csaw>>
    /\ UNCHANGED <<regVars, pendingTCP, pubVars, dataVars, relayVars, extVars>>

\* Mutant of AuthCleanup: clients.Delete(tunnelID) whatever the index holds.
AuthCleanup_Delete(c) ==
    /\ cpc[c] = "cleanup"
    /\ clients' = [clients EXCEPT ![ctun[c]] = 0]
    /\ cpc' = [cpc EXCEPT ![c] = "done"]
    /\ UNCHANGED <<ctok, ctun, cstream, cout, cbefore, lastStored, csaw>>
    /\ UNCHANGED <<regVars, pendingTCP, pubVars, dataVars, relayVars, extVars>>

\* Mutant of AuthCleanup: the handler's exit also takes the tunnel's routes
\* out of the tables.
AuthCleanup_DropsRoutes(c) ==
    /\ cpc[c] = "cleanup"
    /\ clients' = [clients EXCEPT ![ctun[c]] = IF @ = c THEN 0 ELSE @]
    /\ cpc' = [cpc EXCEPT ![c] = "done"]
    /\ tunnelMCPort' = [tunnelMCPort EXCEPT ![ctun[c]] = 0]
    /\ tunnelHTTPPort' = [tunnelHTTPPort EXCEPT ![ctun[c]] = 0]
    /\ UNCHANGED <<ctok, ctun, cstream, cout, cbefore, lastStored, csaw>>
    /\ UNCHANGED <<subdomainMap, portOwners, portLocalMap, udpListeners, udpGo,
                   udpBound, registered, undo, observe, hist>>
    /\ UNCHANGED <<pendingTCP, pubVars, dataVars, relayVars, extVars>>

\* clients.CompareAndDelete(tunnelID, client), then the handler returns.
AuthCleanup(c) ==
    /\ cpc[c] = "cleanup"
    /\ clients' = [clients EXCEPT ![ctun[c]] = IF @ = c THEN 0 ELSE @]
    /\ cpc' = [cpc EXCEPT ![c] = "done"]
    /\ UNCHANGED <<ctok, ctun, cstream, cout, cbefore, lastStored, csaw>>
    /\ UNCHANGED <<regVars, pendingTCP, pubVars, dataVars, relayVars, extVars>>

(***************************************************************************)
(* handleNewConn on a first line that is neither AUTH nor DATA with their  *)
(* operands.                                                               *)
(***************************************************************************)

\* A first line is a sequence of words and blanks.
Words == {"AUTH", "DATA", "HELO"}
Blank == " "

RECURSIVE LinesOfLen(_)
LinesOfLen(n) ==
    IF n = 0 THEN {<<>>}
    ELSE {Append(l, w) : l \in LinesOfLen(n - 1), w \in Words \cup {Blank}}

FirstLines == UNION {LinesOfLen(n) : n \in 0..MaxWords}

IsWord(w) == w # Blank

\* strings.Fields(strings.TrimSpace(line)): the words of the line.
Fields(line) == SelectSeq(line, IsWord)

\* The branch handleNewConn takes on a first line (readErr: ReadString
\* failed): "auth" and "data" go on to handleControlConnFromReader and
\* handleDataConn, every other branch ends the connection.
Branch(line, readErr) ==
    LET parts == Fields(line)
    IN  IF readErr THEN "read error"
        ELSE IF Len(parts) = 0 THEN "empty"
        ELSE IF parts[1] = "AUTH"
             THEN IF Len(parts) < 3 THEN "AUTH short" ELSE "auth"
        ELSE IF parts[1] = "DATA"
             THEN IF Len(parts) < 2 THEN "DATA short" ELSE "data"
        ELSE "unknown"

\* What handleNewConn writes before it closes the connection.
BranchReply(branch) ==
    IF branch = "AUTH short" THEN <<"ERROR invalid handshake">>
    ELSE IF branch = "unknown" THEN <<"ERROR unknown command">>
    ELSE <<>>

\* Mutant of FirstLine: the reply is written and the connection left open.
FirstLine_NoClose(c, line, readErr) ==
    /\ "control" \in lopen
    /\ cpc[c] = "new"
    /\ \A d \in Conns : d < c => cpc[d] # "new"
    /\ Branch(line, readErr) \notin {"auth", "data"}
    /\ cfirst' = [cfirst EXCEPT ![c] = Branch(line, readErr)]
    /\ cout' = [cout EXCEPT ![c] = BranchReply(Branch(line, readErr))]
    /\ cstream' = [cstream EXCEPT ![c] = "open"]
    /\ cpc' = [cpc EXCEPT ![c] = "done"]
    /\ UNCHANGED <<clients, ctok, ctun, cbefore, lastStored, csaw>>
    /\ UNCHANGED <<kaVars, udpVars, restVars>>
    /\ UNCHANGED <<regVars, pendingTCP, pubVars, dataVars, relayVars>>

\* handleNewConn on a first line that takes an ending branch: the reply of
\* the branch, if any, then conn.Close().
FirstLine(c, line, readErr) ==
    /\ "control" \in lopen
    /\ cpc[c] = "new"
    /\ \A d \in Conns : d < c => cpc[d] # "new"
    /\ Branch(line, readErr) \notin {"auth", "data"}
    /\ cfirst' = [cfirst EXCEPT ![c] = Branch(line, readErr)]
    /\ cout' = [cout EXCEPT ![c] = BranchReply(Branch(line, readErr))]
    /\ cstream' = [cstream EXCEPT ![c] = "closed"]
    /\ cpc' = [cpc EXCEPT ![c] = "done"]
    /\ UNCHANGED <<clients, ctok, ctun, cbefore, lastStored, csaw>>
    /\ UNCHANGED <<kaVars, udpVars, restVars>>
    /\ UNCHANGED <<regVars, pendingTCP, pubVars, dataVars, relayVars>>

(***************************************************************************)
(* Keepalive: readControlLoop line by line, its read deadline, pingLoop,   *)
(* and a peer that goes away.                                              *)
(***************************************************************************)

\* The control lines a client sends that touch nothing but the loop itself:
\* PONG, a blank line, an unknown command, and a UDP_REPLY without operands.
ControlLines == {"PONG", "", "FOO", "UDP_REPLY"}

\* One iteration of readControlLoop that reads such a line: every one of
\* them is ignored, and the next iteration sets the read deadline anew.
ReadLine(c, line) ==
    /\ cpc[c] = "reading"
    /\ cstream[c] = "open"
    /\ cdeadline[c] > 0
    /\ cdeadline' = [cdeadline EXCEPT ![c] = DeadlineTicks]
    /\ cponged' = [cponged EXCEPT ![c] = @ \/ line = "PONG"]
    /\ UNCHANGED <<pingpc, npings, sendFailed, udpVars, cfirst, restVars>>
    /\ UNCHANGED <<regVars, ctlVars, pendingTCP, pubVars, dataVars, relayVars>>

\* A keepalive interval passes without a line from c; no pending read is
\* left past its deadline.
Tick ==
    /\ \E c \in Conns : cpc[c] = "reading" /\ cstream[c] = "open"
    /\ \A c \in Conns :
          (cpc[c] = "reading" /\ cstream[c] = "open") => cdeadline[c] > 0
    /\ cdeadline' = [c \in Conns |->
                        IF cpc[c] = "reading" /\ cstream[c] = "open"
                        THEN cdeadline[c] - 1 ELSE cdeadline[c]]
    /\ UNCHANGED <<pingpc, npings, cponged, sendFailed, udpVars, cfirst, restVars>>
    /\ UNCHANGED <<regVars, ctlVars, pendingTCP, pubVars, dataVars, relayVars>>

\* ReadString fails in readControlLoop, which returns: the read deadline
\* has passed, or the connection was closed or has broken.
ReadFails(c) ==
    /\ cpc[c] = "reading"
    /\ cdeadline[c] = 0 \/ cstream[c] # "open"
    /\ cpc' = [cpc EXCEPT ![c] = "cleanup"]
    /\ UNCHANGED <<clients, ctok, ctun, cstream, cout, cbefore, lastStored, csaw>>
    /\ UNCHANGED <<regVars, pendingTCP, pubVars, dataVars, relayVars, extVars>>

\* The client's end of the connection goes away: reads and writes on the
\* server's end fail from now on.
PeerGone(c) ==
    /\ cstream[c] = "open"
    /\ cstream' = [cstream EXCEPT ![c] = "broken"]
    /\ UNCHANGED <<clients, cpc, ctok, ctun, cout, cbefore, lastStored, csaw>>
    /\ UNCHANGED <<regVars, pendingTCP, pubVars, dataVars, relayVars, extVars>>

\* pingLoop on a tick of its ticker: client.send("PING"); it returns when
\* the send fails.
PingSend(c) ==
    /\ pingpc[c] = "running"
    /\ npings[c] < MaxPings
    /\ npings' = [npings EXCEPT ![c] = @ + 1]
    /\ IF cstream[c] = "open"
       THEN /\ cout' = [cout EXCEPT ![c] = Append(@, "PING")]
            /\ UNCHANGED <<pingpc, sendFailed>>
       ELSE /\ pingpc' = [pingpc EXCEPT ![c] = "stopped"]
            /\ sendFailed' = [sendFailed EXCEPT ![c] = TRUE]
            /\ UNCHANGED cout
    /\ UNCHANGED <<clients, cpc, ctok, ctun, cstream, cbefore, lastStored, csaw>>
    /\ UNCHANGED <<cdeadline, cponged, udpVars, cfirst, restVars>>
    /\ UNCHANGED <<regVars, pendingTCP, pubVars, dataVars, relayVars>>

(***************************************************************************)
(* Shutdown: the context of Run, the goroutines that close the listeners   *)
(* when it is done, and the accept loops.                                  *)
(***************************************************************************)

\* cancel() in main on SIGINT or SIGTERM.
Cancel ==
    /\ ~ctxDone
    /\ ctxDone' = TRUE
    /\ UNCHANGED <<lopen, accepting, wrVars, moreVars>>
    /\ UNCHANGED <<regVars, ctlVars, pendingTCP, pubVars, dataVars, relayVars,
                   kaVars, udpVars, cfirst>>

\* go func() { <-ctx.Done(); listener.Close() }() of listener k.
CloseOnDone(k) ==
    /\ ctxDone
    /\ k \in lopen
    /\ lopen' = lopen \ {k}
    /\ UNCHANGED <<ctxDone, accepting, wrVars, moreVars>>
    /\ UNCHANGED <<regVars, ctlVars, pendingTCP, pubVars, dataVars, relayVars,
                   kaVars, udpVars, cfirst>>

\* The accept loop of listener k: Accept fails on the closed listener and
\* the select finds ctx.Done(), so the loop returns.
AcceptFails(k) ==
    /\ k \in accepting
    /\ k \notin lopen
    /\ ctxDone
    /\ accepting' = accepting \ {k}
    /\ UNCHANGED <<ctxDone, lopen, wrVars, moreVars>>
    /\ UNCHANGED <<regVars, ctlVars, pendingTCP, pubVars, dataVars, relayVars,
                   kaVars, udpVars, cfirst>>

(***************************************************************************)
(* UDP sessions: handleUDPPacket and UDP_REPLY in readControlLoop.         *)
(***************************************************************************)

\* The UDP_PKT lines written to client c.
Pkts(c) == Cardinality({i \in DOMAIN cout[c] : cout[c][i] = "UDP_PKT"})

\* handleUDPPacket for a packet that the listener of port p, whose goroutine
\* was started for tunnelID, has read from player address a.
UDPPacket(p, tunnelID, a) ==
    /\ p \in udpListeners
    /\ udpLoop[p].tunnelID = tunnelID
    /\ LET c == clients[tunnelID]
       IN  IF c = 0
           THEN UNCHANGED <<udpPlayerMap, cout, sendFailed, udpPkt>>
           ELSE /\ Pkts(c) < MaxPkts
                /\ udpPlayerMap' = [udpPlayerMap EXCEPT ![a] =
                                       [port |-> p, addr |-> a, closed |-> FALSE]]
                /\ IF cstream[c] = "open"
                   THEN /\ cout' = [cout EXCEPT ![c] = Append(@, "UDP_PKT")]
                        /\ udpPkt' = [connID |-> a,
                                      localPort |-> udpLoop[p].localPort]
                        /\ UNCHANGED sendFailed
                   ELSE /\ sendFailed' = [sendFailed EXCEPT ![c] = TRUE]
                        /\ UNCHANGED <<cout, udpPkt>>
    /\ UNCHANGED <<clients, cpc, ctok, ctun, cstream, cbefore, lastStored, csaw>>
    /\ UNCHANGED <<cdeadline, pingpc, npings, cponged, udpReply, udpLoop, udpOut,
                   cfirst, restVars>>
    /\ UNCHANGED <<regVars, pendingTCP, pubVars, dataVars, relayVars>>

\* The hex digits a payload operand is made of, and a character that is none.
HexChars == {"a", "z"}

HexVal(ch) == CASE ch = "a" -> 10 [] OTHER -> -1

\* The payload operands: words of 1..MaxHex characters.
RECURSIVE WordsUpTo(_)
WordsUpTo(n) ==
    IF n = 0 THEN {<<>>}
    ELSE LET shorter == WordsUpTo(n - 1)
         IN  shorter \cup {Append(w, ch) : w \in shorter, ch \in HexChars}

Payloads == WordsUpTo(MaxHex) \ {<<>>}

\* hex.DecodeString: an error for an odd length or a character that is no
\* hex digit, else one byte for every two digits.
DecodeError == <<-1>>

DecodeString(h) ==
    IF Len(h) % 2 # 0 \/ \E i \in 1..Len(h) : HexVal(h[i]) < 0
    THEN DecodeError
    ELSE [i \in 1..(Len(h) \div 2) |-> 16 * HexVal(h[2 * i - 1]) + HexVal(h[2 * i])]

\* The conn_ids a client can name: the player addresses, with or without an
\* entry in udpPlayerMap.
ReplyIDs == Addrs

\* The fields of the UDP_REPLY lines a client sends: with no operand, with a
\* conn_id only, with a conn_id and a payload.
ReplyLines ==
    {<<"UDP_REPLY">>}
        \cup {<<"UDP_REPLY", id>> : id \in ReplyIDs}
        \cup {<<"UDP_REPLY", id, h>> : id \in ReplyIDs, h \in Payloads}

\* The udpPlayerMap entry that Load(connID) finds, NoEntry when there is none.
LoadEntry(connID) == IF connID \in Addrs THEN udpPlayerMap[connID] ELSE NoEntry

\* Mutant of Dropped: the payload is not checked.
Dropped_AnyPayload(parts) ==
    \/ Len(parts) < 3
    \/ LoadEntry(parts[2]) = NoEntry

\* The reply is one that readControlLoop drops before any WriteTo.
Dropped(parts) ==
    \/ Len(parts) < 3
    \/ DecodeString(parts[3]) = DecodeError
    \/ LoadEntry(parts[2]) = NoEntry

\* One iteration of readControlLoop of c that reads a UDP_REPLY line with
\* these fields: fewer than three fields, a payload that does not decode and a
\* conn_id without entry are dropped; else WriteTo on the entry's PacketConn
\* sends the data to the entry's address, or fails when the PacketConn is
\* closed.
UDPReplyLine(c, parts) ==
    /\ cpc[c] = "reading"
    /\ cstream[c] = "open"
    /\ cdeadline[c] > 0
    /\ cdeadline' = [cdeadline EXCEPT ![c] = DeadlineTicks]
    /\ IF Dropped(parts)
       THEN /\ udpReply' = IF Len(parts) >= 2 /\ parts[2] \in Addrs
                           THEN [udpReply EXCEPT ![parts[2]] =
                                    IF Len(parts) >= 3
                                       /\ DecodeString(parts[3]) # DecodeError
                                    THEN "unknown" ELSE "malformed"]
                           ELSE udpReply
            /\ UNCHANGED udpOut
       ELSE LET entry == LoadEntry(parts[2])
            IN  IF entry.closed
                THEN /\ udpReply' = [udpReply EXCEPT ![parts[2]] = "failed"]
                     /\ UNCHANGED udpOut
                ELSE /\ udpReply' = [udpReply EXCEPT ![parts[2]] = "written"]
                     /\ udpOut' = [port |-> entry.port, addr |-> entry.addr,
                                   data |-> DecodeString(parts[3])]
    /\ UNCHANGED <<pingpc, npings, cponged, sendFailed, udpPlayerMap, udpLoop,
                   udpPkt, cfirst, restVars>>
    /\ UNCHANGED <<regVars, ctlVars, pendingTCP, pubVars, dataVars, relayVars>>

\* A payload that decodes.
SomeHex == <<"a", "a">>

\* One iteration of readControlLoop of c that reads "UDP_REPLY a <hex>":
\* without an entry for a the reply is dropped; with one, WriteTo on its
\* PacketConn sends the datagram, or fails when the PacketConn is closed.
UDPReply(c, a) == UDPReplyLine(c, <<"UDP_REPLY", a, SomeHex>>)

(***************************************************************************)
(* The TCP rendezvous: handleMCConnection and handleHTTPConnection from    *)
(* the lookup on, and handleNewConn on "DATA <conn_id>" with               *)
(* handleDataConn.                                                         *)
(***************************************************************************)

\* subdomainMap.Load of the subdomain a handshake or Host header gave; the
\* handlers return before the Load when they could extract none ("").
LoadTunnel(sub) == IF sub \in Subdomains THEN subdomainMap[sub] ELSE NoTunnel

\* Mutant of PubDispatch: the HTTP proxy does not look at tunnelHTTPPort.
PubDispatch_NoHTTPCheck(x, kind, sub) ==
    /\ kind \in lopen
    /\ ppc[x] = "new"
    /\ \A y \in Pubs : y < x => ppc[y] # "new"
    /\ pkind' = [pkind EXCEPT ![x] = kind]
    /\ LET tunnelID == LoadTunnel(sub)
           ok == /\ tunnelID # NoTunnel
                 /\ clients[tunnelID] # 0
       IN  IF ok
           THEN /\ ptun' = [ptun EXCEPT ![x] = tunnelID]
                /\ pclient' = [pclient EXCEPT ![x] = clients[tunnelID]]
                /\ pport' = [pport EXCEPT ![x] =
                                IF kind = "http" THEN tunnelHTTPPort[tunnelID] ELSE 0]
                /\ pstream' = [pstream EXCEPT ![x] = "open"]
                /\ ppc' = [ppc EXCEPT ![x] = "found"]
           ELSE /\ pstream' = [pstream EXCEPT ![x] = "closed"]
                /\ ppc' = [ppc EXCEPT ![x] = "done"]
                /\ UNCHANGED <<ptun, pclient, pport>>
    /\ UNCHANGED <<pid, dataCh, pdata, ptimedout, pgot>>
    /\ UNCHANGED <<regVars, ctlVars, pendingTCP, dataVars, relayVars, extVars>>

\* The lookups of a public connection whose handshake or Host header gave
\* subdomain sub: subdomainMap, then (HTTP) tunnelHTTPPort, then clients.  A
\* failed lookup returns, which closes the public connection.
PubDispatch(x, kind, sub) ==
    /\ kind \in lopen
    /\ ppc[x] = "new"
    /\ \A y \in Pubs : y < x => ppc[y] # "new"
    /\ pkind' = [pkind EXCEPT ![x] = kind]
    /\ LET tunnelID == LoadTunnel(sub)
           ok == /\ tunnelID # NoTunnel
                 /\ kind = "http" => tunnelHTTPPort[tunnelID] # 0
                 /\ clients[tunnelID] # 0
       IN  IF ok
           THEN /\ ptun' = [ptun EXCEPT ![x] = tunnelID]
                /\ pclient' = [pclient EXCEPT ![x] = clients[tunnelID]]
                /\ pport' = [pport EXCEPT ![x] =
                                IF kind = "http" THEN tunnelHTTPPort[tunnelID] ELSE 0]
                /\ pstream' = [pstream EXCEPT ![x] = "open"]
                /\ ppc' = [ppc EXCEPT ![x] = "found"]
           ELSE /\ pstream' = [pstream EXCEPT ![x] = "closed"]
                /\ ppc' = [ppc EXCEPT ![x] = "done"]
                /\ UNCHANGED <<ptun, pclient, pport>>
    /\ UNCHANGED <<pid, dataCh, pdata, ptimedout, pgot>>
    /\ UNCHANGED <<regVars, ctlVars, pendingTCP, dataVars, relayVars, extVars>>

\* (Minecraft) tunnelMCPort.LoadOrStore(tunnelID, 25565); then
\* connID := generateID(), dataCh := make(chan net.Conn, 1) and
\* client.pendingTCP.Store(connID, dataCh).  generateID may return any value,
\* one it returned before included; the values are numbered in the order of
\* their first use.
PubPend(x, id) ==
    /\ ppc[x] = "found"
    /\ \A j \in ConnIDs : j < id => (\E y \in Pubs : pid[y] = j)
    /\ LET t == ptun[x]
           mcPort == IF tunnelMCPort[t] # 0 THEN tunnelMCPort[t] ELSE DefaultMCPort
       IN  IF pkind[x] = "mc"
           THEN /\ tunnelMCPort' = [tunnelMCPort EXCEPT ![t] = mcPort]
                /\ pport' = [pport EXCEPT ![x] = mcPort]
           ELSE UNCHANGED <<tunnelMCPort, pport>>
    /\ pid' = [pid EXCEPT ![x] = id]
    /\ pendingTCP' = [pendingTCP EXCEPT ![pclient[x]][id] = x]
    /\ ppc' = [ppc EXCEPT ![x] = "pending"]
    /\ UNCHANGED <<pkind, ptun, pclient, pstream, dataCh, pdata, ptimedout, pgot>>
    /\ UNCHANGED <<subdomainMap, tunnelHTTPPort, portOwners, portLocalMap,
                   udpListeners, udpGo, udpBound, registered, undo, observe, hist>>
    /\ UNCHANGED <<ctlVars, dataVars, relayVars, extVars>>

\* client.send("OPEN <connID> <port>"): the write fails on a closed
\* connection, and the handler returns.
PubSendOpen(x) ==
    /\ ppc[x] = "pending"
    /\ IF cstream[pclient[x]] = "open"
       THEN /\ cout' = [cout EXCEPT ![pclient[x]] = Append(@, "OPEN")]
            /\ ppc' = [ppc EXCEPT ![x] = "waiting"]
            /\ UNCHANGED sendFailed
       ELSE /\ ppc' = [ppc EXCEPT ![x] = "cleanup"]
            /\ sendFailed' = [sendFailed EXCEPT ![pclient[x]] = TRUE]
            /\ UNCHANGED cout
    /\ UNCHANGED <<clients, cpc, ctok, ctun, cstream, cbefore, lastStored, csaw>>
    /\ UNCHANGED <<pkind, ptun, pclient, pid, pport, pstream, dataCh, pdata,
                   ptimedout, pgot>>
    /\ UNCHANGED <<cdeadline, pingpc, npings, cponged, udpVars, cfirst, restVars>>
    /\ UNCHANGED <<regVars, pendingTCP, dataVars, relayVars>>

\* The select receives dataConn from dataCh; the buffered bytes are written
\* and relay starts.
PubReceive(x) ==
    /\ ppc[x] = "waiting"
    /\ dataCh[x] # 0
    /\ pdata' = [pdata EXCEPT ![x] = dataCh[x]]
    /\ dataCh' = [dataCh EXCEPT ![x] = 0]
    /\ ppc' = [ppc EXCEPT ![x] = "relaying"]
    /\ UNCHANGED <<pkind, ptun, pclient, pid, pport, pstream, ptimedout, pgot>>
    /\ UNCHANGED <<regVars, ctlVars, pendingTCP, dataVars, relayVars, extVars>>

\* Mutant of PubTimeout: the handler notes the timeout and goes on waiting.
PubTimeout_StaysWaiting(x) ==
    /\ ppc[x] = "waiting"
    /\ ~ptimedout[x]
    /\ ptimedout' = [ptimedout EXCEPT ![x] = TRUE]
    /\ UNCHANGED <<ppc, pkind, ptun, pclient, pid, pport, pstream, dataCh, pdata, pgot>>
    /\ UNCHANGED <<regVars, ctlVars, pendingTCP, dataVars, relayVars, extVars>>

\* The select takes time.After(dataConnTimeout).
PubTimeout(x) ==
    /\ ppc[x] = "waiting"
    /\ ptimedout' = [ptimedout EXCEPT ![x] = TRUE]
    /\ ppc' = [ppc EXCEPT ![x] = "cleanup"]
    /\ UNCHANGED <<pkind, ptun, pclient, pid, pport, pstream, dataCh, pdata, pgot>>
    /\ UNCHANGED <<regVars, ctlVars, pendingTCP, dataVars, relayVars, extVars>>

\* relay returns: one direction of the copy ended, both connections are
\* closed.
RelayEnd(x) ==
    /\ ppc[x] = "relaying"
    /\ pstream' = [pstream EXCEPT ![x] = "closed"]
    /\ dstream' = [dstream EXCEPT ![pdata[x]] = "closed"]
    /\ ppc' = [ppc EXCEPT ![x] = "cleanup"]
    /\ UNCHANGED <<pkind, ptun, pclient, pid, pport, dataCh, pdata, ptimedout, pgot>>
    /\ UNCHANGED <<dpc, did, dfound>>
    /\ UNCHANGED <<regVars, ctlVars, pendingTCP, relayVars, extVars>>

\* Variant of the deferred calls that leaves the pending entry in the table.
PubCleanup_KeepPending(x) ==
    /\ ppc[x] = "cleanup"
    /\ dstream' = [d \in DataConns |-> IF d = pdata[x] THEN "closed" ELSE dstream[d]]
    /\ pstream' = [pstream EXCEPT ![x] = "closed"]
    /\ ppc' = [ppc EXCEPT ![x] = "done"]
    /\ UNCHANGED <<pkind, ptun, pclient, pid, pport, dataCh, pdata, ptimedout, pgot>>
    /\ UNCHANGED <<dpc, did, dfound>>
    /\ UNCHANGED <<regVars, ctlVars, pendingTCP, relayVars, extVars>>

\* The deferred calls of the handler: dataConn.Close() when one was received,
\* client.pendingTCP.Delete(connID), playerConn.Close().
PubCleanup(x) ==
    /\ ppc[x] = "cleanup"
    /\ dstream' = [d \in DataConns |-> IF d = pdata[x] THEN "closed" ELSE dstream[d]]
    /\ pendingTCP' = [pendingTCP EXCEPT ![pclient[x]][pid[x]] = 0]
    /\ pstream' = [pstream EXCEPT ![x] = "closed"]
    /\ ppc' = [ppc EXCEPT ![x] = "done"]
    /\ UNCHANGED <<pkind, ptun, pclient, pid, pport, dataCh, pdata, ptimedout, pgot>>
    /\ UNCHANGED <<dpc, did, dfound>>
    /\ UNCHANGED <<regVars, ctlVars, relayVars, extVars>>

\* Mutant of ClientsPending: every client with a pending entry under id, in
\* the index or not.
ClientsPending_AnyClient(id) == {c \in Conns : pendingTCP[c][id] # 0}

\* The clients of the index that have a pending entry under id.
ClientsPending(id) ==
    {c \in Conns : (\E t \in Tunnels : clients[t] = c) /\ pendingTCP[c][id] # 0}

\* A connection arrives with DATA id: OK is written, and handleDataConn
\* searches the clients of the index for one with a pending entry under id;
\* with none the connection is closed.
DataArrive(d, id) ==
    /\ "control" \in lopen
    /\ dpc[d] = "new"
    /\ \A e \in DataConns : e < d => dpc[e] # "new"
    /\ did' = [did EXCEPT ![d] = id]
    /\ IF ClientsPending(id) = {}
       THEN /\ dstream' = [dstream EXCEPT ![d] = "closed"]
            /\ dpc' = [dpc EXCEPT ![d] = "done"]
            /\ UNCHANGED dfound
       ELSE /\ dstream' = [dstream EXCEPT ![d] = "open"]
            /\ dpc' = [dpc EXCEPT ![d] = "found"]
            /\ \E c \in ClientsPending(id) : dfound' = [dfound EXCEPT ![d] = c]
    /\ UNCHANGED <<regVars, ctlVars, pendingTCP, pubVars, relayVars, extVars>>

\* found.pendingTCP.Load(connID) and the non-blocking send into the channel:
\* a full channel closes the connection; a missing entry does nothing.
DataDeliver(d) ==
    /\ dpc[d] = "found"
    /\ LET x == pendingTCP[dfound[d]][did[d]]
       IN  IF x = 0
           THEN UNCHANGED <<dataCh, pgot, dstream>>
           ELSE IF dataCh[x] = 0
                THEN /\ dataCh' = [dataCh EXCEPT ![x] = d]
                     /\ pgot' = [pgot EXCEPT ![x] = @ \cup {d}]
                     /\ UNCHANGED dstream
                ELSE /\ dstream' = [dstream EXCEPT ![d] = "closed"]
                     /\ UNCHANGED <<dataCh, pgot>>
    /\ dpc' = [dpc EXCEPT ![d] = "done"]
    /\ UNCHANGED <<ppc, pkind, ptun, pclient, pid, pport, pstream, pdata, ptimedout>>
    /\ UNCHANGED <<did, dfound>>
    /\ UNCHANGED <<regVars, ctlVars, pendingTCP, relayVars, extVars>>

(***************************************************************************)
(* relay(a, b) of one pair: a is the public connection RelayedPub, b the   *)
(* data connection it received.                                            *)
(***************************************************************************)

RelayedPub == 1

Peer(side) == IF side = "a" THEN "b" ELSE "a"

\* Sequences over Bytes of length 0..n.
BytesUpTo(n) == UNION {[1..k -> Bytes] : k \in 0..n}

\* dataConn.Write(buffered) (HTTP: raw.Bytes() and the bytes left in the
\* reader), then relay starts its two cp goroutines.
WriteBuffered ==
    /\ rpc = "paired"
    /\ out' = [out EXCEPT !["b"] = @ \o buffered]
    /\ rpc' = "relaying"
    /\ UNCHANGED <<buffered, written, unread, fin, cpDone>>
    /\ UNCHANGED <<regVars, ctlVars, pendingTCP, pubVars, dataVars, extVars>>

\* The peer of a side (the player or browser for a, the tunnel client for b)
\* writes a byte; the server has not closed the connection.
PeerWrite(side, byte) ==
    /\ rpc \in {"paired", "relaying"}
    /\ ~fin[side]
    /\ Len(written[side]) < MaxLen
    /\ written' = [written EXCEPT ![side] = Append(@, byte)]
    /\ unread' = [unread EXCEPT ![side] = Append(@, byte)]
    /\ UNCHANGED <<rpc, buffered, out, fin, cpDone>>
    /\ UNCHANGED <<regVars, ctlVars, pendingTCP, pubVars, dataVars, extVars>>

\* The peer of a side has written all it has to write and shuts down its
\* sending direction; it still reads.
PeerFinish(side) ==
    /\ rpc \in {"paired", "relaying"}
    /\ ~fin[side]
    /\ fin' = [fin EXCEPT ![side] = TRUE]
    /\ UNCHANGED <<rpc, buffered, written, unread, out, cpDone>>
    /\ UNCHANGED <<regVars, ctlVars, pendingTCP, pubVars, dataVars, extVars>>

\* One iteration of cp(dst, src): src.Read returns n > 0 bytes, which are
\* written to dst, or it returns EOF, the loop breaks and done is signalled.
cp(dst, src) ==
    /\ rpc = "relaying"
    /\ src \notin cpDone
    /\ \/ /\ unread[src] # <<>>
          /\ \E n \in 1..Len(unread[src]) :
                /\ out' = [out EXCEPT ![dst] = @ \o SubSeq(unread[src], 1, n)]
                /\ unread' = [unread EXCEPT ![src] =
                                 SubSeq(@, n + 1, Len(@))]
          /\ UNCHANGED cpDone
       \/ /\ unread[src] = <<>>
          /\ fin[src]
          /\ cpDone' = cpDone \cup {src}
          /\ UNCHANGED <<out, unread>>
    /\ UNCHANGED <<rpc, buffered, written, fin>>
    /\ UNCHANGED <<regVars, ctlVars, pendingTCP, pubVars, dataVars, extVars>>

\* <-done: one cp goroutine has signalled done.
RelayWait == cpDone # {}

\* relay returns after <-done: a.Close() and b.Close().  The handler then
\* runs its deferred calls.
RelayReturn ==
    /\ rpc = "relaying"
    /\ RelayWait
    /\ rpc' = "closed"
    /\ pstream' = [pstream EXCEPT ![RelayedPub] = "closed"]
    /\ dstream' = [dstream EXCEPT ![pdata[RelayedPub]] = "closed"]
    /\ ppc' = [ppc EXCEPT ![RelayedPub] = "cleanup"]
    /\ UNCHANGED <<buffered, written, unread, out, fin, cpDone>>
    /\ UNCHANGED <<pkind, ptun, pclient, pid, pport, dataCh, pdata, ptimedout, pgot>>
    /\ UNCHANGED <<dpc, did, dfound>>
    /\ UNCHANGED <<regVars, ctlVars, pendingTCP, extVars>>

(***************************************************************************)
(* Specifications.                                                         *)
(***************************************************************************)

Init == InitReg /\ InitCtl /\ InitRdv /\ InitRelay /\ observe = FALSE

\* The same state, with the registry's calls recorded in undo.
InitObserved == InitReg /\ InitCtl /\ InitRdv /\ InitRelay /\ observe = TRUE

\* The registry and the UDP listener goroutines.
NextReg ==
    \/ \E reg \in Registrations : StartTunnel(reg)
    \/ \E t \in Tunnels : StopTunnel(t)
    \/ \E i \in 1..MaxGo : UDPListen(i)
    \/ \E i \in 1..MaxGo : UDPStore(i)

SpecReg == InitObserved /\ [][NextReg]_vars

\* The subdomain of a tunnel: the tunnels table keeps subdomains unique.
SubdomainOf(t) == IF t = "t1" THEN "s1" ELSE "s2"

\* Registrations of the control-channel specification: either tunnel under
\* its subdomain, without a UDP port or an HTTP port.
PlainRegistrations ==
    {reg \in Registrations :
        /\ reg.Subdomain = SubdomainOf(reg.TunnelID)
        /\ reg.UDPPublicPort = 0 /\ reg.HTTPLocalPort = 0}

\* The registry and the control channels.
Next ==
    \/ \E reg \in PlainRegistrations : StartTunnel(reg)
    \/ \E t \in Tunnels : StopTunnel(t)
    \/ \E c \in Conns, tok \in Tokens, t \in Tunnels : AuthHandshake(c, tok, t)
    \/ \E c \in Conns : AuthLoadAndDelete(c)
    \/ \E c \in Conns : AuthStore(c)
    \/ \E c \in Conns : AuthWriteOK(c)
    \/ \E c \in Conns : ReadLoopEnd(c)
    \/ \E c \in Conns : AuthCleanup(c)

Spec == Init /\ [][Next]_vars

\* The tunnel of the rendezvous specification: t1 under subdomain s1 with an
\* HTTP port and no UDP port.
RdvReg ==
    [TunnelID |-> "t1", Subdomain |-> "s1", MCLocalPort |-> DefaultMCPort,
     HTTPLocalPort |-> 8123, UDPLocalPort |-> 24454, UDPPublicPort |-> 0]

\* The tables after RestoreActiveTunnels has started the one active tunnel
\* RdvReg: what RegisterTunnel(RdvReg) leaves on an empty server.
RestoredTables ==
    /\ subdomainMap = [s \in Subdomains |->
                         IF s = RdvReg.Subdomain THEN RdvReg.TunnelID ELSE NoTunnel]
    /\ tunnelMCPort = [t \in Tunnels |->
                         IF t = RdvReg.TunnelID THEN RdvReg.MCLocalPort ELSE 0]
    /\ tunnelHTTPPort = [t \in Tunnels |->
                           IF t = RdvReg.TunnelID THEN RdvReg.HTTPLocalPort ELSE 0]
    /\ portOwners = [p \in UDPPorts |-> NoTunnel]
    /\ portLocalMap = [p \in UDPPorts |-> 0]
    /\ udpListeners = {}
    /\ udpGo = <<>>
    /\ udpBound = {}
    /\ registered = [t \in Tunnels |-> IF t = RdvReg.TunnelID THEN RdvReg ELSE NoReg]
    /\ undo = NoUndo
    /\ observe = FALSE
    /\ hist = NoHist

InitRestored == RestoredTables /\ InitCtl /\ InitRdv /\ InitRelay

\* The tunnel's client (one control connection), the public connections of
\* both proxies and the DATA connections.
NextRdv ==
    \/ StopTunnel(RdvReg.TunnelID)
    \/ AuthHandshake(1, "valid", RdvReg.TunnelID)
    \/ \E c \in Conns : AuthLoadAndDelete(c)
    \/ \E c \in Conns : AuthStore(c)
    \/ \E c \in Conns : AuthWriteOK(c)
    \/ \E c \in Conns : ReadLoopEnd(c)
    \/ \E c \in Conns : AuthCleanup(c)
    \/ \E x \in Pubs, kind \in {"mc", "http"} : PubDispatch(x, kind, RdvReg.Subdomain)
    \/ \E x \in Pubs, id \in ConnIDs : PubPend(x, id)
    \/ \E x \in Pubs : PubSendOpen(x)
    \/ \E x \in Pubs : PubReceive(x)
    \/ \E x \in Pubs : PubTimeout(x)
    \/ \E x \in Pubs : RelayEnd(x)
    \/ \E x \in Pubs : PubCleanup(x)
    \/ \E d \in DataConns, id \in ConnIDs : DataArrive(d, id)
    \/ \E d \in DataConns : DataDeliver(d)

SpecRdv == InitRestored /\ [][NextRdv]_vars

\* Control connection 1 has completed its AUTH for the tunnel and sits in
\* readControlLoop (the state AuthHandshake, AuthLoadAndDelete, AuthStore and
\* AuthWriteOK of connection 1 lead to); lines are the lines written to it
\* and pending is its pendingTCP.
ConnectedClient(lines, pending) ==
    /\ cdeadline = [c \in Conns |-> DeadlineTicks]
    /\ pingpc = [c \in Conns |-> IF c = 1 THEN "running" ELSE "off"]
    /\ npings = [c \in Conns |-> 0]
    /\ cponged = [c \in Conns |-> FALSE]
    /\ sendFailed = [c \in Conns |-> FALSE]
    /\ InitUDPLine
    /\ clients = [t \in Tunnels |-> IF t = RdvReg.TunnelID THEN 1 ELSE 0]
    /\ cpc = [c \in Conns |-> IF c = 1 THEN "reading" ELSE "new"]
    /\ ctok = [c \in Conns |-> "valid"]
    /\ ctun = [c \in Conns |-> IF c = 1 THEN RdvReg.TunnelID ELSE NoTunnel]
    /\ cstream = [c \in Conns |-> IF c = 1 THEN "open" ELSE "none"]
    /\ cout = [c \in Conns |-> IF c = 1 THEN lines ELSE <<>>]
    /\ cbefore = [c \in Conns |-> 0]
    /\ lastStored = [t \in Tunnels |-> IF t = RdvReg.TunnelID THEN 1 ELSE 0]
    /\ csaw = [c \in Conns |-> c = 1]
    /\ pendingTCP = [c \in Conns |-> [id \in ConnIDs |->
                        IF c = 1 THEN pending[id] ELSE 0]]

InitConnected ==
    /\ RestoredTables
    /\ ConnectedClient(<<"OK">>, [id \in ConnIDs |-> 0])
    /\ InitRdv
    /\ InitRelay

\* Control connections that authenticate for the tunnel, one after or beside
\* the other, and the public connections of the Minecraft proxy.
NextReplace ==
    \/ \E c \in Conns : AuthHandshake(c, "valid", RdvReg.TunnelID)
    \/ \E c \in Conns : AuthLoadAndDelete(c)
    \/ \E c \in Conns : AuthStore(c)
    \/ \E c \in Conns : AuthWriteOK(c)
    \/ \E c \in Conns : ReadLoopEnd(c)
    \/ \E c \in Conns : AuthCleanup(c)
    \/ \E x \in Pubs : PubDispatch(x, "mc", RdvReg.Subdomain)
    \/ \E x \in Pubs, id \in ConnIDs : PubPend(x, id)
    \/ \E x \in Pubs : PubSendOpen(x)
    \/ \E x \in Pubs : PubTimeout(x)
    \/ \E x \in Pubs : PubCleanup(x)

SpecReplace == InitRestored /\ [][NextReplace]_vars

\* The public connections and the DATA connections of a connected client.
NextWait ==
    \/ \E x \in Pubs, kind \in {"mc", "http"} : PubDispatch(x, kind, RdvReg.Subdomain)
    \/ \E x \in Pubs, id \in ConnIDs : PubPend(x, id)
    \/ \E x \in Pubs : PubSendOpen(x)
    \/ \E x \in Pubs : PubReceive(x)
    \/ \E x \in Pubs : PubTimeout(x)
    \/ \E x \in Pubs : RelayEnd(x)
    \/ \E x \in Pubs : PubCleanup(x)
    \/ \E d \in DataConns, id \in ConnIDs : DataArrive(d, id)
    \/ \E d \in DataConns : DataDeliver(d)

\* The select of a waiting proxy takes a ready case (the timer fires after
\* dataConnTimeout), relay returns when a side closes, and the deferred calls
\* run when the handler returns.
FairSpecRdv ==
    /\ InitConnected
    /\ [][NextWait]_vars
    /\ \A x \in Pubs : WF_vars(PubTimeout(x)) /\ WF_vars(PubCleanup(x))

\* Public connection RelayedPub of the given kind has been through its
\* rendezvous with data connection 1 under conn_id 1 and has received it
\* from its channel: the state PubDispatch, PubPend, PubSendOpen,
\* DataArrive, DataDeliver and PubReceive lead to from InitConnected.
PairedState(kind) ==
    /\ RestoredTables
    /\ ConnectedClient(<<"OK", "OPEN">>,
                       [id \in ConnIDs |-> IF id = 1 THEN RelayedPub ELSE 0])
    /\ ppc = [x \in Pubs |-> IF x = RelayedPub THEN "relaying" ELSE "new"]
    /\ pkind = [x \in Pubs |-> IF x = RelayedPub THEN kind ELSE "mc"]
    /\ ptun = [x \in Pubs |-> IF x = RelayedPub THEN RdvReg.TunnelID ELSE NoTunnel]
    /\ pclient = [x \in Pubs |-> IF x = RelayedPub THEN 1 ELSE 0]
    /\ pid = [x \in Pubs |-> IF x = RelayedPub THEN 1 ELSE 0]
    /\ pport = [x \in Pubs |-> IF x # RelayedPub THEN 0
                               ELSE IF kind = "mc" THEN RdvReg.MCLocalPort
                               ELSE RdvReg.HTTPLocalPort]
    /\ pstream = [x \in Pubs |-> IF x = RelayedPub THEN "open" ELSE "none"]
    /\ dataCh = [x \in Pubs |-> 0]
    /\ pdata = [x \in Pubs |-> IF x = RelayedPub THEN 1 ELSE 0]
    /\ ptimedout = [x \in Pubs |-> FALSE]
    /\ pgot = [x \in Pubs |-> IF x = RelayedPub THEN {1} ELSE {}]
    /\ dpc = [d \in DataConns |-> IF d = 1 THEN "done" ELSE "new"]
    /\ did = [d \in DataConns |-> IF d = 1 THEN 1 ELSE 0]
    /\ dfound = [d \in DataConns |-> IF d = 1 THEN 1 ELSE 0]
    /\ dstream = [d \in DataConns |-> IF d = 1 THEN "open" ELSE "none"]

\* A pair at the moment the proxy has received dataConn: the proxy holds the
\* bytes it pre-read (at least one: the handshake or the header block).
InitPaired ==
    /\ \E kind \in {"mc", "http"} : PairedState(kind)
    /\ rpc = "paired"
    /\ buffered \in BytesUpTo(MaxLen) \ {<<>>}
    /\ written = [s \in Sides |-> <<>>]
    /\ unread = [s \in Sides |-> <<>>]
    /\ out = [s \in Sides |-> <<>>]
    /\ fin = [s \in Sides |-> FALSE]
    /\ cpDone = {}

NextRelay ==
    \/ WriteBuffered
    \/ \E side \in Sides, byte \in Bytes : PeerWrite(side, byte)
    \/ \E side \in Sides : PeerFinish(side)
    \/ \E src \in Sides : cp(Peer(src), src)
    \/ RelayReturn
    \/ PubCleanup(RelayedPub)

SpecRelay == InitPaired /\ [][NextRelay]_vars

(***************************************************************************)
(* Claims on the registry (specification SpecReg).                         *)
(***************************************************************************)

\* No startUDPPortListener goroutine is still on its way to its read loop.
Quiescent == udpGo = <<>>

\* C2: a RegisterTunnel(reg) (here: one whose keys were in no table) followed
\* by the matching UnregisterTunnel leaves, once the goroutines the register
\* started have run, the six routing tables as they were before the register
\* and no UDP listener of that register bound.
C2_RegisterUnregisterRestores ==
    (undo.phase = "unregistered" /\ Quiescent) =>
        (Tables = undo.before /\ udpBound = undo.bound)

\* C3: IsUDPPortInUse(p) is true exactly when p is the udp_public_port of a
\* tunnel that is registered and not since unregistered.
C3_PortInUseIffRegistered ==
    \A p \in UDPPorts :
        IsUDPPortInUse(p) <=>
            \E t \in Tunnels : registered[t] # NoReg /\ registered[t].UDPPublicPort = p

\* C4: between the registry's operations (and with every started listener
\* goroutine in its read loop) a udp_public_port is a key of portOwners,
\* portLocalMap and udpListeners together or of none; after its unregister
\* it is in none and no listener is bound to it.
C4_UDPIndicesTogether ==
    Quiescent =>
        /\ \A p \in UDPPorts :
              \/ portOwners[p] # NoTunnel /\ portLocalMap[p] # 0 /\ p \in udpListeners
              \/ portOwners[p] = NoTunnel /\ portLocalMap[p] = 0 /\ p \notin udpListeners
        /\ undo.phase = "unregistered" /\ undo.reg.UDPPublicPort # 0 =>
              LET p == undo.reg.UDPPublicPort
              IN  /\ portOwners[p] = NoTunnel /\ portLocalMap[p] = 0
                  /\ p \notin udpListeners /\ p \notin udpBound

(***************************************************************************)
(* Claims on the control channel (specification Spec).                     *)
(***************************************************************************)

\* The step in which the handler of c does clients.Store.
StoreStep(c) == cpc[c] = "store" /\ cpc'[c] = "ok"

\* A ClientConnection that is still served: stream open, read loop not ended.
Live(c) == cstream[c] = "open" /\ cpc[c] \in {"ok", "reading"}

\* The index holds a connection only under the tunnel_id it authenticated for
\* (so under one tunnel_id only), and only a connection that did its Store.
C1_IndexWellFormed ==
    \A t \in Tunnels : clients[t] # 0 => Stored(clients[t], t)

\* At the replacement step of c, which follows as the next Store for its
\* tunnel_id the handshake of d, complete when c arrived: the index holds c
\* and the stream of d has been closed.
C1_ReplaceStepClosed ==
    \A c \in Conns : StoreStep(c) =>
        /\ clients'[ctun[c]] = c
        /\ LET d == cbefore[c]
           IN  (d # 0 /\ lastStored[ctun[c]] = d) => cstream'[d] = "closed"

\* C1: after two consecutive successful AUTH handshakes for one tunnel_id,
\* the second starting after the first has completed, the index holds
\* exactly the second ClientConnection and the stream of the first has been
\* closed; the index never holds more than one ClientConnection for a
\* tunnel_id.
C1_SecondReplacesFirstClosed ==
    []C1_IndexWellFormed /\ [][C1_ReplaceStepClosed]_vars

\* The step in which the first line of c, an AUTH, is handled.
ArriveStep(c) == cpc[c] = "new" /\ cpc'[c] # "new"

\* A connection whose token failed verification: one reply, closed, not in
\* the index.
C9_Rejected ==
    \A c \in Conns : (cpc[c] # "new" /\ ctok[c] # "valid") =>
        /\ cout[c] = <<"ERROR unauthorized">>
        /\ cstream[c] = "closed" /\ cpc[c] = "done"
        /\ \A t \in Tunnels : clients[t] # c

\* Handling an AUTH whose token fails verification changes neither the index
\* nor any other connection's stream.
C9_RejectStep ==
    \A c \in Conns : (ArriveStep(c) /\ ctok'[c] # "valid") =>
        /\ clients' = clients
        /\ \A d \in Conns : d # c => cstream'[d] = cstream[d] /\ cout'[d] = cout[d]

\* C9: an AUTH whose token fails verification gets the single reply
\* ERROR unauthorized and its stream is closed; the tunnel_id -> client index
\* is unchanged and an existing client is neither replaced nor closed; this
\* is so whether or not the tunnel_id is registered.
C9_InvalidTokenUnauthorized == []C9_Rejected /\ [][C9_RejectStep]_vars

\* C9 witness: a rejected token for a tunnel_id that was not registered at
\* the check, and one for a tunnel_id whose client is still served.
C9_Witness ==
    /\ \E c \in Conns : cpc[c] = "done" /\ ctok[c] # "valid" /\ ~csaw[c]
    /\ \E c \in Conns : /\ cpc[c] = "done" /\ ctok[c] # "valid"
                        /\ clients[ctun[c]] # 0 /\ Live(clients[ctun[c]])

\* A connection with a valid token whose tunnel_id was no value of
\* subdomainMap at the check: one reply, closed, never in the index.
C10_Rejected ==
    \A c \in Conns : (cpc[c] # "new" /\ ctok[c] = "valid" /\ ~csaw[c]) =>
        /\ cout[c] = <<"ERROR tunnel not active">>
        /\ cstream[c] = "closed" /\ cpc[c] = "done"
        /\ \A t \in Tunnels : clients[t] # c

\* Handling such an AUTH adds no entry to the index.
C10_RejectStep ==
    \A c \in Conns : (ArriveStep(c) /\ ctok'[c] = "valid" /\ ~csaw'[c]) =>
        clients' = clients

\* C10: an AUTH with a valid token for a tunnel_id that is not a value of
\* subdomain -> tunnel_id is answered ERROR tunnel not active and closed, and
\* adds no entry to the tunnel_id -> client index, after any sequence of
\* register and unregister calls.
C10_UnregisteredNotActive == []C10_Rejected /\ [][C10_RejectStep]_vars

\* C10 witness: the rejected tunnel_id had been registered, served a client,
\* and was unregistered before the AUTH.
C10_Witness ==
    \E c \in Conns, d \in Conns :
        /\ cpc[c] = "done" /\ ctok[c] = "valid" /\ ~csaw[c]
        /\ cout[c] = <<"ERROR tunnel not active">>
        /\ cbefore[c] = d /\ d # 0 /\ registered[ctun[c]] = NoReg

(***************************************************************************)
(* The TCP rendezvous (C5, C6, C7).                                        *)
(***************************************************************************)

\* C5: over the lifetime of a pending entry at most one data connection is
\* accepted into its rendezvous slot; a further connection that sends DATA
\* with the same conn_id is closed and never held, also after the proxy has
\* taken the first one out of the slot.
C5_AtMostOneAccepted ==
    \A x \in Pubs : Cardinality(pgot[x]) <= 1

\* C6: a conn_id is a key of its client's pendingTCP only while the
\* rendezvous waits (or the handler runs its deferred calls): not once the
\* proxy has received the data connection and relays.
C6_PendingOnlyWhileWaiting ==
    \A x \in Pubs :
        (pid[x] # 0 /\ pendingTCP[pclient[x]][pid[x]] = x)
            => ppc[x] \in {"pending", "waiting", "cleanup"}

\* Some connection has sent DATA with the conn_id of proxy x.
DataArrivedFor(x) ==
    \E d \in DataConns : dpc[d] # "new" /\ did[d] = pid[x]

\* Proxy x has timed out and returned: its conn_id is in no pending table of
\* its client and the public connection is closed.
TimedOutClean(x) ==
    /\ ptimedout[x]
    /\ ppc[x] = "done"
    /\ pendingTCP[pclient[x]][pid[x]] = 0
    /\ pstream[x] = "closed"

\* A proxy is paired only with a connection that sent DATA with its conn_id,
\* and a proxy that has timed out is never paired.
C7_Pairing ==
    \A x \in Pubs :
        /\ pdata[x] # 0 => (did[pdata[x]] = pid[x] /\ ~ptimedout[x])
        /\ ptimedout[x] => ppc[x] \in {"cleanup", "done"}

\* C7: after OPEN has been sent for a conn_id the proxy either receives a
\* data connection, which sent DATA with that conn_id, or its wait times out,
\* the conn_id leaves the client's pending table and the public connection
\* is closed; the latter whenever no DATA for the conn_id arrives.  No data
\* connection is paired with a proxy that has timed out.
C7_TimeoutCleans ==
    /\ \A x \in Pubs : (ppc[x] = "waiting") ~> (pdata[x] # 0 \/ TimedOutClean(x))
    /\ []C7_Pairing

\* A proxy has sent OPEN, no DATA for its conn_id has arrived, and it has
\* timed out and returned.
C7_Witness ==
    \E x \in Pubs : TimedOutClean(x) /\ cout[pclient[x]] # <<"OK">> /\ ~DataArrivedFor(x)

(***************************************************************************)
(* The relayed bytes (C8).                                                 *)
(***************************************************************************)

\* C8: when the relay of a pair is over, the public connection has received
\* exactly the bytes the client wrote on the data connection, and the data
\* connection exactly the proxy's pre-read bytes followed by the bytes the
\* public connection wrote, in order: no byte written is lost, also when
\* one side finishes writing before the other.
C8_ByteEquality ==
    rpc = "closed" =>
        /\ out["a"] = written["b"]
        /\ out["b"] = buffered \o written["a"]

(***************************************************************************)
(* The index and the registration (C11); DATA connections that are not     *)
(* delivered (C19).                                                        *)
(***************************************************************************)

\* C11: whenever the tunnel_id -> client index holds a ClientConnection for
\* tunnel_id t, t is registered (a value of subdomainMap), also when an AUTH
\* for t runs concurrently with UnregisterTunnel for t.
C11_ClientOnlyIfRegistered ==
    \A t \in Tunnels : clients[t] # 0 => IsRegistered(t)

\* Data connection d has been put into a rendezvous channel.
Delivered(d) == \E x \in Pubs : d \in pgot[x]

\* C19: a connection that sent DATA and whose handler has returned without
\* delivering it into a rendezvous slot has been closed by the server, also
\* when the pending entry disappeared between the search over clients and
\* the delivery.
C19_UndeliveredClosed ==
    \A d \in DataConns :
        (dpc[d] = "done" /\ ~Delivered(d)) => dstream[d] = "closed"

(***************************************************************************)
(* Replacement of a client by a second AUTH.                               *)
(***************************************************************************)

\* The handshake of c takes client d out of the index in this step: its
\* LoadAndDelete finds d, or its Store overwrites d.
TakesOut(c, d) ==
    /\ ctun[c] \in Tunnels
    /\ clients[ctun[c]] = d
    /\ \/ cpc[c] = "replace" /\ cpc'[c] = "store"
       \/ StoreStep(c)

\* A client replaced by a second AUTH is closed by the replacement, a closed
\* stream receives no line, a proxy dispatch selects the client the index
\* holds at that time, and its OPEN is written on that client's stream only.
C12_Step ==
    /\ \A c, d \in Conns : (d # 0 /\ d # c /\ TakesOut(c, d)) => cstream'[d] = "closed"
    /\ \A d \in Conns : cstream[d] = "closed" => cout'[d] = cout[d]
    /\ \A x \in Pubs :
          /\ (ppc[x] = "new" /\ ppc'[x] = "found") => pclient'[x] = clients[ptun'[x]]
          /\ (ppc[x] = "pending" /\ ppc'[x] # "pending") =>
                \A d \in Conns \ {pclient[x]} : cout'[d] = cout[d]

\* C12: after a client for tunnel_id t has been replaced by a second
\* successful AUTH, the first stream receives no further server line and is
\* closed, and the OPEN of every proxy dispatch that starts after the
\* replacement is written on the second client's stream only.
C12_ReplacedClosedOpenOnSecond == [][C12_Step]_vars

(***************************************************************************)
(* UnregisterTunnel called with any arguments (specification SpecUnreg).   *)
(***************************************************************************)

\* Registrations of tunnel t1 under its subdomain, with or without the UDP
\* port; tunnel t2 is never registered.
UnregRegistrations ==
    {reg \in Registrations :
        /\ reg.TunnelID = "t1" /\ reg.Subdomain = SubdomainOf("t1")
        /\ reg.HTTPLocalPort = 0}

InitUnreg ==
    /\ InitTables /\ InitCtl /\ InitRdv /\ InitRelay
    /\ observe = FALSE
    /\ hist = [NoHist EXCEPT !.on = TRUE]

\* The registry, UnregisterTunnel with arguments of any kind, and the control
\* connection of one client of t1.
NextUnreg ==
    \/ \E reg \in UnregRegistrations : StartTunnel(reg)
    \/ \E t \in Tunnels : StopTunnel(t)
    \/ \E t \in Tunnels, s \in Subdomains, p \in UDPPorts \cup {0} :
          UnregisterCall(t, s, p)
    \/ \E i \in 1..MaxGo : UDPListen(i)
    \/ \E i \in 1..MaxGo : UDPStore(i)
    \/ AuthHandshake(1, "valid", "t1")
    \/ AuthLoadAndDelete(1)
    \/ AuthStore(1)
    \/ AuthWriteOK(1)
    \/ ReadLoopEnd(1)
    \/ AuthCleanup(1)

SpecUnreg == InitUnreg /\ [][NextUnreg]_vars

\* UnregisterTunnel can be called with every tunnel_id, subdomain and port
\* in every state: it has no error return and no failing path.
C13_Total ==
    \A t \in Tunnels, s \in Subdomains, p \in UDPPorts \cup {0} :
        ENABLED UnregisterCall(t, s, p)

\* A call for arguments never registered leaves the routing tables, the
\* index and every stream as they were; a call for a tunnel with a connected
\* client closes that client's stream and leaves the tunnel without client.
C13_Step ==
    \A t \in Tunnels, s \in Subdomains, p \in UDPPorts \cup {0} :
        (UnregisterCall(t, s, p) \/ (StopTunnel(t) /\ registered[t].Subdomain = s
                                       /\ registered[t].UDPPublicPort = p)) =>
            /\ NeverRegistered(t, s, p) =>
                  /\ Tables' = Tables
                  /\ udpBound' = udpBound
                  /\ clients' = clients
                  /\ cstream' = cstream
            /\ clients[t] # 0 =>
                  /\ cstream'[clients[t]] = "closed"
                  /\ ~IsClientConnected(t)'

\* C13: UnregisterTunnel is total: called for a tunnel_id, subdomain and
\* port that were never registered it raises no error and leaves every
\* routing table and every client unchanged; called for a registered tunnel
\* with a connected client it closes that client's stream and afterwards
\* IsClientConnected(tunnel_id) is false.
C13_UnregisterTotal == []C13_Total /\ [][C13_Step]_vars

\* C13 witness: UnregisterTunnel has been called with a port, a subdomain
\* and a tunnel_id never registered while another tunnel had a client, and
\* it has been called for a tunnel whose connected client is now closed.
C13_Witness ==
    /\ hist.never # NoCall
    /\ hist.never.udpPublicPort # 0
    /\ hist.never.connected # {}
    /\ hist.closed # 0
    /\ cstream[hist.closed] = "closed"
    /\ ~IsClientConnected(ctun[hist.closed])

(***************************************************************************)
(* RegisterTunnel called again for an active tunnel (specification SpecReg)*)
(***************************************************************************)

\* The PacketConns open on port p: those of goroutines between ListenPacket
\* and udpListeners.Store, and the one udpListeners holds.
OpenListeners(p) ==
    Cardinality({i \in 1..Len(udpGo) : udpGo[i].port = p /\ udpGo[i].bound})
        + (IF p \in udpListeners THEN 1 ELSE 0)

\* At most one listener is bound or recorded for a udp_public_port.
C14_OneListener == \A p \in UDPPorts : OpenListeners(p) <= 1

\* RegisterTunnel(reg) called while reg is the registration in force of its
\* tunnel, that is a second time with no unregister in between, leaves the
\* six routing tables as the first call left them.
C14_SecondCall ==
    \A reg \in Registrations :
        (StartTunnel(reg) /\ registered[reg.TunnelID] = reg) => Tables' = Tables

\* C14: RegisterTunnel is idempotent with respect to an already-active
\* listener: calling it twice with the same TunnelRegistration leaves the
\* routing tables in the same state as calling it once, and at no time is
\* more than one UDP listener bound or recorded for one udp_public_port.
C14_RegisterIdempotent == []C14_OneListener /\ [][C14_SecondCall]_vars

\* C14 witness: RegisterTunnel has run twice for the registration in force,
\* both times without a listener stored: one of the two goroutines has bound
\* the port and the other has still to try.
C14_Witness ==
    \E i, j \in 1..Len(udpGo) :
        /\ i # j
        /\ udpGo[i].port = udpGo[j].port /\ udpGo[i].tunnelID = udpGo[j].tunnelID
        /\ udpGo[i].bound /\ ~udpGo[j].bound
        /\ registered[udpGo[i].tunnelID] # NoReg
        /\ registered[udpGo[i].tunnelID].UDPPublicPort = udpGo[i].port
        /\ portOwners[udpGo[i].port] = udpGo[i].tunnelID

(***************************************************************************)
(* Keepalive of a connected client (specification FairSpecKeep).           *)
(***************************************************************************)

\* The connected client of the tunnel: its control lines, the time that
\* passes, its pingLoop, its end of the connection going away, and the
\* public connections of the Minecraft proxy.
NextKeep ==
    \/ \E c \in Conns, line \in ControlLines : ReadLine(c, line)
    \/ Tick
    \/ \E c \in Conns : ReadFails(c)
    \/ \E c \in Conns : PeerGone(c)
    \/ \E c \in Conns : PingSend(c)
    \/ \E c \in Conns : AuthCleanup(c)
    \/ \E x \in Pubs : PubDispatch(x, "mc", RdvReg.Subdomain)
    \/ \E x \in Pubs, id \in ConnIDs : PubPend(x, id)
    \/ \E x \in Pubs : PubSendOpen(x)
    \/ \E x \in Pubs : PubTimeout(x)
    \/ \E x \in Pubs : PubCleanup(x)

\* Time passes, a read that cannot succeed fails, and a handler that can
\* take its next step takes it; a client is free to send nothing.
FairSpecKeep ==
    /\ InitConnected
    /\ [][NextKeep]_vars
    /\ WF_vars(Tick)
    /\ \A c \in Conns : WF_vars(ReadFails(c)) /\ WF_vars(AuthCleanup(c))
    /\ \A x \in Pubs : WF_vars(PubTimeout(x)) /\ WF_vars(PubCleanup(x))

\* The handler of client c has returned after its readControlLoop ended.
LoopEnded(c) == cpc[c] = "done" /\ Stored(c, ctun[c])

\* A client whose inbound loop has ended is out of the index and its stream
\* is no longer open (the server has closed it, or the peer is gone).
C15_Terminated ==
    \A c \in Conns : LoopEnded(c) =>
        /\ clients[ctun[c]] # c
        /\ cstream[c] # "open"

\* C15: when the inbound control loop of a client ends because its read
\* deadline expired or a read failed, the client is terminated: its entry
\* is removed from the index, its stream is closed, and its keepalive
\* emitter eventually stops writing PING to it.
C15_LoopEndTerminates ==
    /\ []C15_Terminated
    /\ \A c \in Conns : [](LoopEnded(c) => <>(pingpc[c] = "stopped"))

\* A line other than PONG leaves the client connected and its stream open.
C16_LineKeeps ==
    \A c \in Conns, line \in ControlLines \ {"PONG"} :
        ReadLine(c, line) =>
            /\ cpc'[c] = "reading" /\ cstream'[c] = "open"
            /\ clients' = clients

\* C16: a client that keeps sending only unknown or malformed control lines
\* and never sends PONG is not terminated by any single such line, but is
\* eventually terminated through the keepalive read deadline.
C16_GarbageEndsByDeadline ==
    /\ [][C16_LineKeeps]_vars
    /\ \A c \in Conns :
          (cpc[c] = "reading") ~> (cpc[c] \in {"cleanup", "done"} \/ cponged[c])

\* A dispatch selects no client on which a send has failed, and such a
\* client is not in the index when a public connection is looked up.
C17_Step ==
    \A x \in Pubs : (ppc[x] = "new" /\ ppc'[x] # "new") =>
        /\ pclient'[x] # 0 => ~sendFailed[pclient'[x]]
        /\ \A t \in Tunnels : clients[t] # 0 => ~sendFailed[clients[t]]

\* C17: whenever a send on a client's control channel fails, that client is
\* demoted to disconnected: it is removed from the index, so that
\* IsClientConnected(tunnel_id) becomes false and no later dispatch selects
\* it.
C17_FailedSendDemotes == [][C17_Step]_vars

(***************************************************************************)
(* UDP sessions of a tunnel with a UDP port (specification SpecUDP).       *)
(***************************************************************************)

\* The tunnel of the UDP specification: t1 under s1 with the UDP port.
UDPReg ==
    [TunnelID |-> "t1", Subdomain |-> "s1", MCLocalPort |-> DefaultMCPort,
     HTTPLocalPort |-> 0, UDPLocalPort |-> 24454, UDPPublicPort |-> 20777]

\* The tunnel started and stopped, its listener goroutines, its client, the
\* packets of the players and the replies of the client.
NextUDP ==
    \/ StartTunnel(UDPReg)
    \/ StopTunnel(UDPReg.TunnelID)
    \/ \E i \in 1..MaxGo : UDPListen(i)
    \/ \E i \in 1..MaxGo : UDPStore(i)
    \/ AuthHandshake(1, "valid", UDPReg.TunnelID)
    \/ AuthLoadAndDelete(1)
    \/ AuthStore(1)
    \/ AuthWriteOK(1)
    \/ \E a \in Addrs : UDPPacket(UDPReg.UDPPublicPort, UDPReg.TunnelID, a)
    \/ \E a \in Addrs : UDPReply(1, a)

SpecUDP == Init /\ [][NextUDP]_vars

\* No entry of the conn_id -> UDPSession map holds a closed listener.
C18_NoSessionOfClosedListener ==
    \A a \in Addrs : udpPlayerMap[a] # NoEntry => ~udpPlayerMap[a].closed

\* A UDP_REPLY for a conn_id whose listener has been closed is dropped as
\* unknown.
C18_ReplyStep ==
    \A c \in Conns, a \in Addrs :
        (UDPReply(c, a) /\ udpPlayerMap[a].closed) => udpReply'[a] = "unknown"

\* C18: after UnregisterTunnel closes the UDP listener of a tunnel, no UDP
\* session record that refers to that listener remains in the
\* conn_id -> UDPSession map, so a later UDP_REPLY for one of its conn_ids is
\* dropped as unknown.
C18_SessionsDiscarded ==
    []C18_NoSessionOfClosedListener /\ [][C18_ReplyStep]_vars

(***************************************************************************)
(* First lines that end the connection (specification SpecLine).           *)
(***************************************************************************)

\* The tunnel with its client connected and its inbound loop, the public
\* connections of the Minecraft proxy with their rendezvous, and new
\* connections on the control port whose first line ends them.
NextLine ==
    \/ \E c \in Conns, line \in FirstLines, readErr \in BOOLEAN :
          FirstLine(c, line, readErr)
    \/ \E x \in Pubs : PubDispatch(x, "mc", RdvReg.Subdomain)
    \/ \E x \in Pubs, id \in ConnIDs : PubPend(x, id)
    \/ \E x \in Pubs : PubSendOpen(x)
    \/ \E x \in Pubs : PubTimeout(x)
    \/ \E x \in Pubs : PubCleanup(x)
    \/ \E c \in Conns, line \in ControlLines : ReadLine(c, line)
    \/ Tick

SpecLine == InitConnected /\ [][NextLine]_vars

\* The first lines of the claim: a failed read, an empty line, AUTH with
\* fewer than two operands, DATA without operand, an unknown command.
Malformed(line, readErr) ==
    \/ readErr
    \/ Fields(line) = <<>>
    \/ Head(Fields(line)) = "AUTH" /\ Len(Fields(line)) < 3
    \/ Head(Fields(line)) = "DATA" /\ Len(Fields(line)) < 2
    \/ Head(Fields(line)) \notin {"AUTH", "DATA"}

\* The connection that arrives next.
NextConn(c) == cpc[c] = "new" /\ \A d \in Conns : d < c => cpc[d] # "new"

\* Every malformed first line takes an ending branch of handleNewConn.
C20_EndsOnMalformed ==
    \A c \in Conns, line \in FirstLines, readErr \in BOOLEAN :
        (NextConn(c) /\ Malformed(line, readErr)) =>
            Branch(line, readErr) \notin {"auth", "data"}

\* The step of an ending branch closes the connection and changes no routing
\* table, no entry of the index, no other connection, no pending rendezvous
\* and no public or data connection.
C20_Step ==
    \A c \in Conns :
        (cpc[c] = "new" /\ cfirst'[c] # "none") =>
            /\ cstream'[c] = "closed"
            /\ Tables' = Tables
            /\ clients' = clients
            /\ \A d \in Conns \ {c} : cstream'[d] = cstream[d] /\ cout'[d] = cout[d]
            /\ pendingTCP' = pendingTCP
            /\ UNCHANGED <<pubVars, dataVars>>

\* C20: a new connection on the control port whose first line is neither a
\* well-formed AUTH <token> <tunnel_id> nor a well-formed DATA <conn_id>
\* (empty line, unknown command, AUTH with fewer than two operands, DATA
\* without operand, or read error) is closed, and it changes no routing
\* table, no client entry and no pending rendezvous.
C20_MalformedFirstLineCloses == []C20_EndsOnMalformed /\ [][C20_Step]_vars

\* C20 witness: while the tunnel's client is connected and a rendezvous is
\* pending, a connection has sent AUTH with one operand: it has the reply
\* and is closed.
C20_Witness ==
    \E c \in Conns, x \in Pubs :
        /\ cfirst[c] = "AUTH short"
        /\ cout[c] = <<"ERROR invalid handshake">>
        /\ cstream[c] = "closed"
        /\ clients[RdvReg.TunnelID] = 1 /\ cstream[1] = "open"
        /\ ppc[x] = "waiting" /\ pendingTCP[1][pid[x]] = x

(***************************************************************************)
(* Shutdown (specification FairSpecShut).                                  *)
(***************************************************************************)

\* The Start handler while the process runs: main exits on the signal that
\* cancels the context.
StartWhileRunning(reg) == ~ctxDone /\ StartTunnel(reg)

\* The tunnel with its UDP port started before the shutdown, its listener
\* goroutines, its client, and the shutdown of the server.
NextShut ==
    \/ StartWhileRunning(UDPReg)
    \/ \E i \in 1..MaxGo : UDPListen(i)
    \/ \E i \in 1..MaxGo : UDPStore(i)
    \/ \E a \in Addrs : UDPPacket(UDPReg.UDPPublicPort, UDPReg.TunnelID, a)
    \/ AuthHandshake(1, "valid", UDPReg.TunnelID)
    \/ AuthLoadAndDelete(1)
    \/ AuthStore(1)
    \/ AuthWriteOK(1)
    \/ Cancel
    \/ \E k \in TCPListeners : CloseOnDone(k)
    \/ \E k \in TCPListeners : AcceptFails(k)

\* Every goroutine that can take its next step takes it.
FairSpecShut ==
    /\ Init
    /\ [][NextShut]_vars
    /\ \A k \in TCPListeners : WF_vars(CloseOnDone(k)) /\ WF_vars(AcceptFails(k))
    /\ \A i \in 1..MaxGo : WF_vars(UDPListen(i)) /\ WF_vars(UDPStore(i))

\* Every listener is closed and every accept loop and UDP read loop has
\* ended.
AllClosed ==
    /\ lopen = {} /\ accepting = {}
    /\ udpBound = {} /\ udpListeners = {}

NextAuth ==
    \/ \E c \in Conns, tok \in Tokens : AuthHandshake(c, tok, RdvReg.TunnelID)
    \/ \E c \in Conns : AuthLoadAndDelete(c)
    \/ \E c \in Conns : AuthStore(c)
    \/ \E c \in Conns : AuthWriteOK(c)
    \/ \E c \in Conns : ReadLoopEnd(c)
    \/ \E c \in Conns : AuthCleanup(c)

SpecAuth == InitRestored /\ [][NextAuth]_vars

\* The step in which the handler of c does clients.CompareAndDelete.
CleanupStep(c) == cpc[c] = "cleanup" /\ cpc'[c] = "done"

\* The cleanup of c removes the entry of its tunnel_id exactly when the
\* index holds c there; it changes no other entry and closes no stream.
C22_Step ==
    \A c \in Conns : CleanupStep(c) =>
        /\ \A t \in Tunnels :
              clients'[t] = IF clients[t] = c THEN 0 ELSE clients[t]
        /\ cstream' = cstream

\* C22: when a client's control handler terminates and removes its entry
\* from the index, it removes the entry only if the index still holds that
\* same ClientConnection: the cleanup of a replaced client never removes or
\* closes the newer client registered for the same tunnel_id, in any
\* interleaving of the old client's exit with the new AUTH.
C22_CleanupOnlyOwnEntry == [][C22_Step]_vars

\* C22 witness: the handler of a replaced client has ended while a newer
\* client held the entry of its tunnel_id, and the newer client is still in
\* the index with its stream open.
C22_Witness ==
    \E c, d \in Conns :
        /\ c # d /\ ctun[c] = ctun[d] /\ ctun[c] \in Tunnels
        /\ cpc[c] = "done" /\ Stored(c, ctun[c]) /\ cstream[c] = "closed"
        /\ cbefore[d] = c
        /\ clients[ctun[d]] = d /\ cstream[d] = "open"

(***************************************************************************)
(* The writes on one control channel (specification SpecWrite).            *)
(*                                                                         *)
(* wire records every conn.Write call on the client's stream: who wrote it *)
(* and whether the writer's line goes on in a later call.  The TCP         *)
(* connection makes one Write call atomic; a line longer than the          *)
(* bufio.Writer's buffer leaves send in several calls.                     *)
(***************************************************************************)

Chunk(w, more) == [by |-> w, more |-> more]

\* conn.Write([]byte("OK\n")) of the handler: on the connection itself, not
\* through ClientConn.send, after the client was stored in the index.
ConnWriteOK(c) ==
    /\ cpc[c] = "ok"
    /\ cout' = [cout EXCEPT ![c] = IF cstream[c] = "open" THEN Append(@, "OK") ELSE @]
    /\ wire' = IF cstream[c] = "open" THEN Append(wire, Chunk("OK", FALSE)) ELSE wire
    /\ cpc' = [cpc EXCEPT ![c] = "reading"]
    /\ pingpc' = [pingpc EXCEPT ![c] = "running"]
    /\ cdeadline' = [cdeadline EXCEPT ![c] = DeadlineTicks]
    /\ UNCHANGED <<clients, ctok, ctun, cstream, cbefore, lastStored, csaw>>
    /\ UNCHANGED <<npings, cponged, sendFailed, udpVars, cfirst, shutVars, moreVars>>
    /\ UNCHANGED <<mu, wpc, wleft>>
    /\ UNCHANGED <<regVars, pendingTCP, pubVars, dataVars, relayVars>>

\* The number of conn.Write calls a sender's line can take.
ChunksOf(w) == IF w = "UDP_PKT" THEN 1..MaxChunks ELSE {1}

\* A sender holds a client: pingLoop was started with it; a proxy task found
\* it under the tunnel of a subdomain, a UDP packet task under the tunnel of
\* its listener.
HoldsClient(w, c) ==
    IF w = "PING" THEN pingpc[c] = "running"
    ELSE /\ ctun[c] \in Tunnels
         /\ clients[ctun[c]] = c
         /\ IF w = "OPEN"
            THEN \E s \in Subdomains : subdomainMap[s] = ctun[c]
            ELSE \E p \in udpListeners : portOwners[p] = ctun[c]

\* c.mu.Lock() of send
sendLock(w, c) ==
    /\ wpc[w] = "idle"
    /\ HoldsClient(w, c)
    /\ mu = "unlocked"
    /\ mu' = w
    /\ wpc' = [wpc EXCEPT ![w] = "locked"]
    /\ \E n \in ChunksOf(w) : wleft' = [wleft EXCEPT ![w] = n]
    /\ UNCHANGED wire
    /\ UNCHANGED <<regVars, ctlVars, pendingTCP, pubVars, dataVars, relayVars>>
    /\ UNCHANGED <<kaVars, udpVars, cfirst, shutVars, moreVars>>

\* one conn.Write of c.writer.WriteString(msg + "\n") and c.writer.Flush()
sendWrite(w) ==
    /\ wpc[w] = "locked"
    /\ wleft[w] > 0
    /\ wire' = Append(wire, Chunk(w, wleft[w] > 1))
    /\ wleft' = [wleft EXCEPT ![w] = @ - 1]
    /\ UNCHANGED <<mu, wpc>>
    /\ UNCHANGED <<regVars, ctlVars, pendingTCP, pubVars, dataVars, relayVars>>
    /\ UNCHANGED <<kaVars, udpVars, cfirst, shutVars, moreVars>>

\* the deferred c.mu.Unlock() of send
sendUnlock(w) ==
    /\ wpc[w] = "locked"
    /\ wleft[w] = 0
    /\ mu' = "unlocked"
    /\ wpc' = [wpc EXCEPT ![w] = "done"]
    /\ UNCHANGED <<wleft, wire>>
    /\ UNCHANGED <<regVars, ctlVars, pendingTCP, pubVars, dataVars, relayVars>>
    /\ UNCHANGED <<kaVars, udpVars, cfirst, shutVars, moreVars>>

NextWrite ==
    \/ StartTunnel(UDPReg)
    \/ \E i \in 1..MaxGo : UDPListen(i)
    \/ \E i \in 1..MaxGo : UDPStore(i)
    \/ AuthHandshake(1, "valid", UDPReg.TunnelID)
    \/ AuthLoadAndDelete(1)
    \/ AuthStore(1)
    \/ ConnWriteOK(1)
    \/ \E w \in Senders : sendLock(w, 1)
    \/ \E w \in Senders : sendWrite(w)
    \/ \E w \in Senders : sendUnlock(w)

SpecWrite == Init /\ [][NextWrite]_vars

\* C23: the lines the server writes on one control channel are serialised:
\* a line that takes several writes is not interrupted by another writer's
\* bytes, so every line is on the wire whole and contiguous.
C23_LinesWhole ==
    \A i \in 1..Len(wire) :
        wire[i].more => (i < Len(wire) => wire[i + 1].by = wire[i].by)

(***************************************************************************)
(* UDP_REPLY lines of every form (specification SpecReply).                *)
(***************************************************************************)

NextReply ==
    \/ StartTunnel(UDPReg)
    \/ StopTunnel(UDPReg.TunnelID)
    \/ \E i \in 1..MaxGo : UDPListen(i)
    \/ \E i \in 1..MaxGo : UDPStore(i)
    \/ AuthHandshake(1, "valid", UDPReg.TunnelID)
    \/ AuthLoadAndDelete(1)
    \/ AuthStore(1)
    \/ AuthWriteOK(1)
    \/ \E a \in Addrs : UDPPacket(UDPReg.UDPPublicPort, UDPReg.TunnelID, a)
    \/ \E parts \in ReplyLines : UDPReplyLine(1, parts)

SpecReply == Init /\ [][NextReply]_vars

\* A payload of valid hex: an even number of hex digits.
ValidHex(h) == Len(h) % 2 = 0 /\ \A i \in 1..Len(h) : h[i] = "a"

\* The line has fewer than two operands, a payload that is not valid hex, or
\* a conn_id without session.
C24_NothingToSend(parts) ==
    \/ Len(parts) < 3
    \/ ~ValidHex(parts[3])
    \/ parts[2] \notin Addrs
    \/ udpPlayerMap[parts[2]] = NoEntry

C24_Step ==
    \A parts \in ReplyLines :
        UDPReplyLine(1, parts) =>
            /\ cpc'[1] = "reading" /\ cstream'[1] = "open"
            /\ IF C24_NothingToSend(parts)
               THEN /\ udpOut' = udpOut
                    /\ udpPlayerMap' = udpPlayerMap
                    /\ regVars' = regVars
                    /\ ctlVars' = ctlVars
                    /\ pendingTCP' = pendingTCP
               ELSE LET session == udpPlayerMap[parts[2]]
                    IN  udpOut' # udpOut \/ ~session.closed =>
                            /\ udpOut'.port = session.port
                            /\ udpOut'.addr = session.addr
                            /\ udpOut'.data = DecodeString(parts[3])

\* C24: a UDP_REPLY <conn_id> <hex> is written to the peer address and on the
\* listener recorded in the session of conn_id; one without session, with
\* fewer than two operands or with a payload that is not valid hex sends no
\* datagram, changes no state and leaves the control loop running.
C24_ReplyRouted == [][C24_Step]_vars

\* A reply has been written to the player it was for, on the listener of the
\* player's session, and a reply for a conn_id without session, or one that
\* was malformed, has been dropped.
C24_Witness ==
    \E a, b \in Addrs :
        /\ a # b
        /\ udpReply[a] = "written"
        /\ udpOut = [port |-> udpPlayerMap[a].port, addr |-> a,
                     data |-> DecodeString(SomeHex)]
        /\ udpReply[b] \in {"unknown", "malformed"}
        /\ cpc[1] = "reading"

(***************************************************************************)
(* Datagrams on a tunnel's public UDP port (specification SpecPkt).        *)
(***************************************************************************)

\* The tunnel of UDPReg after an Update of its udp_local_port, which the API
\* allows while the tunnel is stopped.
UDPRegEdited == [UDPReg EXCEPT !.UDPLocalPort = 24455]

NextPkt ==
    \/ \E reg \in {UDPReg, UDPRegEdited} : StartTunnel(reg)
    \/ StopTunnel(UDPReg.TunnelID)
    \/ \E i \in 1..MaxGo : UDPListen(i)
    \/ \E i \in 1..MaxGo : UDPStore(i)
    \/ AuthHandshake(1, "valid", UDPReg.TunnelID)
    \/ AuthLoadAndDelete(1)
    \/ AuthStore(1)
    \/ AuthWriteOK(1)
    \/ \E t \in Tunnels, a \in Addrs : UDPPacket(UDPReg.UDPPublicPort, t, a)

SpecPkt == Init /\ [][NextPkt]_vars

\* The registered tunnel whose udp_public_port is p.
TunnelOfPort(p) ==
    {t \in Tunnels : registered[t] # NoReg /\ registered[t].UDPPublicPort = p}

C25_Step ==
    \A p \in UDPPorts, g \in Tunnels, a \in Addrs :
        UDPPacket(p, g, a) =>
            \A t \in TunnelOfPort(p) :
                IF clients[t] = 0
                THEN udpPlayerMap' = udpPlayerMap /\ cout' = cout
                ELSE /\ udpPlayerMap'[a] = [port |-> p, addr |-> a, closed |-> FALSE]
                     /\ cout' # cout =>
                           /\ cout'[clients[t]] = Append(cout[clients[t]], "UDP_PKT")
                           /\ udpPkt' = [connID |-> a,
                                         localPort |-> registered[t].UDPLocalPort]

\* C25: a datagram on a tunnel's public UDP port is dropped without creating
\* or updating a session when the tunnel has no connected client; otherwise
\* the session of conn_id = peer address is set to this listener and address
\* and the UDP_PKT sent carries that conn_id and the tunnel's udp_local_port.
C25_DatagramForwarded == [][C25_Step]_vars

(***************************************************************************)
(* The HTTP proxy and a tunnel registered with and without HTTP            *)
(* (specification SpecHTTP).                                               *)
(***************************************************************************)

\* The tunnel of RdvReg after its http_local_port was taken away.
RdvRegNoHTTP == [RdvReg EXCEPT !.HTTPLocalPort = 0]

\* What the proxies extract from a Host header or handshake: nothing, the
\* tunnel's subdomain, a subdomain of no tunnel.
HostSubs == {"", "s1", "s2"}

NextHTTP ==
    \/ \E reg \in {RdvReg, RdvRegNoHTTP} : StartTunnel(reg)
    \/ StopTunnel(RdvReg.TunnelID)
    \/ AuthHandshake(1, "valid", RdvReg.TunnelID)
    \/ AuthLoadAndDelete(1)
    \/ AuthStore(1)
    \/ AuthWriteOK(1)
    \/ ReadLoopEnd(1)
    \/ AuthCleanup(1)
    \/ \E x \in Pubs, sub \in HostSubs : PubDispatch(x, "http", sub)
    \/ \E x \in Pubs, id \in ConnIDs : PubPend(x, id)
    \/ \E x \in Pubs : PubSendOpen(x)
    \/ \E x \in Pubs : PubTimeout(x)
    \/ \E x \in Pubs : PubCleanup(x)

SpecHTTP == Init /\ [][NextHTTP]_vars

\* The registered tunnels with this subdomain whose registration has an
\* http_local_port and which have a client in the index.
C26_Serving(sub) ==
    {t \in Tunnels : /\ registered[t] # NoReg
                     /\ registered[t].Subdomain = sub
                     /\ registered[t].HTTPLocalPort # 0
                     /\ clients[t] # 0}

C26_Step ==
    \A x \in Pubs :
        /\ \A sub \in HostSubs :
              PubDispatch(x, "http", sub) =>
                 IF C26_Serving(sub) # {}
                 THEN \E t \in C26_Serving(sub) :
                         /\ ppc'[x] = "found"
                         /\ pport'[x] = registered[t].HTTPLocalPort
                         /\ pclient'[x] = clients[t]
                 ELSE /\ ppc'[x] = "done" /\ pstream'[x] = "closed"
                      /\ pid'[x] = 0
                      /\ pendingTCP' = pendingTCP
                      /\ cout' = cout
        /\ cout' # cout /\ PubSendOpen(x) =>
              /\ pkind[x] = "http" /\ pport[x] # 0
              /\ cout' = [cout EXCEPT ![pclient[x]] = Append(@, "OPEN")]
        /\ ppc[x] = "done" /\ pid[x] = 0 => ppc'[x] = "done" /\ pid'[x] = 0

MCReg == [RdvReg EXCEPT !.MCLocalPort = 25570]

NextMC ==
    \/ StartTunnel(MCReg)
    \/ StopTunnel(MCReg.TunnelID)
    \/ AuthHandshake(1, "valid", MCReg.TunnelID)
    \/ AuthLoadAndDelete(1)
    \/ AuthStore(1)
    \/ AuthWriteOK(1)
    \/ ReadLoopEnd(1)
    \/ AuthCleanup(1)
    \/ \E x \in Pubs, sub \in HostSubs : PubDispatch(x, "mc", sub)
    \/ \E x \in Pubs, id \in ConnIDs : PubPend(x, id)
    \/ \E x \in Pubs : PubSendOpen(x)
    \/ \E x \in Pubs : PubTimeout(x)
    \/ \E x \in Pubs : PubCleanup(x)

SpecMC == Init /\ [][NextMC]_vars

\* The registered tunnels with this subdomain that have a client in the index.
C27_Serving(sub) ==
    {t \in Tunnels : /\ registered[t] # NoReg
                     /\ registered[t].Subdomain = sub
                     /\ clients[t] # 0}

C27_Step ==
    \A x \in Pubs :
        /\ \A sub \in HostSubs :
              PubDispatch(x, "mc", sub) =>
                 IF C27_Serving(sub) # {}
                 THEN \E t \in C27_Serving(sub) :
                         ppc'[x] = "found" /\ ptun'[x] = t /\ pclient'[x] = clients[t]
                 ELSE /\ ppc'[x] = "done" /\ pstream'[x] = "closed"
                      /\ pid'[x] = 0
                      /\ pendingTCP' = pendingTCP
                      /\ cout' = cout
        /\ cout' # cout /\ PubSendOpen(x) =>
              /\ cout' = [cout EXCEPT ![pclient[x]] = Append(@, "OPEN")]
              /\ pport[x] = MCReg.MCLocalPort

\* C27: the Minecraft proxy sends OPEN only to the client that is connected
\* for the tunnel of the extracted subdomain when it looks the connection up,
\* and the OPEN carries the mc_local_port registered for that tunnel; with an
\* empty or unmapped subdomain or without a connected client the public
\* connection is closed without OPEN and without a pending entry.
C27_MCOpenToClientWithPort == [][C27_Step]_vars

(***************************************************************************)
(* Clients that come and go while the tunnel is registered with a UDP port *)
(* (specification SpecReconnect).                                          *)
(***************************************************************************)

NextReconnect ==
    \/ StartTunnel(UDPReg)
    \/ \E i \in 1..MaxGo : UDPListen(i)
    \/ \E i \in 1..MaxGo : UDPStore(i)
    \/ \E c \in Conns : AuthHandshake(c, "valid", UDPReg.TunnelID)
    \/ \E c \in Conns : AuthLoadAndDelete(c)
    \/ \E c \in Conns : AuthStore(c)
    \/ \E c \in Conns : AuthWriteOK(c)
    \/ \E c \in Conns : ReadLoopEnd(c)
    \/ \E c \in Conns : AuthCleanup(c)

SpecReconnect == Init /\ [][NextReconnect]_vars

\* A step of the handler of control connection c.
HandlerStep(c) == cpc'[c] # cpc[c]

C28_Step ==
    \A c \in Conns :
        HandlerStep(c) =>
            /\ Tables' = Tables
            /\ registered' = registered
            /\ (cpc[c] = "new" /\ IsRegistered(ctun'[c])) => cpc'[c] = "replace"

\* C28: authentication, replacement and disconnection of clients leave the
\* tunnel's registration as it is: subdomain -> tunnel_id, tunnel_id ->
\* mc_local_port, tunnel_id -> http_local_port and the three UDP indices are
\* unchanged by every step of a control connection's handler, and a client
\* that connects again is accepted without a new register.
C28_ClientsLeaveRegistration == [][C28_Step]_vars

\* A client of the tunnel has disconnected and a later connection has been
\* accepted and sits in its read loop, the tunnel having been registered once.
C28_Witness ==
    \E c, d \in Conns :
        /\ c # d
        /\ Stored(c, UDPReg.TunnelID) /\ cpc[c] = "done"
        /\ cbefore[d] = c
        /\ cpc[d] = "reading" /\ clients[UDPReg.TunnelID] = d
        /\ registered[UDPReg.TunnelID] = UDPReg
        /\ UDPReg.UDPPublicPort \in udpListeners
        /\ portOwners[UDPReg.UDPPublicPort] = UDPReg.TunnelID

(***************************************************************************)
(* The life of a pending TCP connection, with a client that can be lost    *)
(* (specification SpecLife).                                               *)
(***************************************************************************)

\* The Minecraft proxy's public connections and the DATA connections of a
\* connected client, and the tunnel's stop, which closes the client.
NextLife ==
    \/ \E x \in Pubs : PubDispatch(x, "mc", RdvReg.Subdomain)
    \/ \E x \in Pubs, id \in ConnIDs : PubPend(x, id)
    \/ \E x \in Pubs : PubSendOpen(x)
    \/ \E x \in Pubs : PubReceive(x)
    \/ \E x \in Pubs : PubTimeout(x)
    \/ \E x \in Pubs : RelayEnd(x)
    \/ \E x \in Pubs : PubCleanup(x)
    \/ \E d \in DataConns, id \in ConnIDs : DataArrive(d, id)
    \/ \E d \in DataConns : DataDeliver(d)
    \/ StopTunnel(RdvReg.TunnelID)

SpecLife == InitConnected /\ [][NextLife]_vars

\* The steps of public connection x from the creation of its pending entry
\* on: PAIRED and RELAYING (the data connection received, relay running),
\* TIMED_OUT, CLOSED; sendFails says whether CREATED -> CLOSED on an OPEN
\* that could not be sent is one of them.
C29_Life(x, sendFails) ==
    /\ (ppc[x] = "pending" /\ ppc'[x] # "pending") =>
          \/ ppc'[x] = "waiting"
          \/ /\ sendFails
             /\ cstream[pclient[x]] # "open" /\ cout' = cout
             /\ ppc'[x] = "cleanup" /\ pdata'[x] = 0 /\ ~ptimedout'[x]
    /\ (ppc[x] = "waiting" /\ ppc'[x] # "waiting") =>
          \/ ppc'[x] = "relaying" /\ pdata'[x] # 0 /\ ~ptimedout'[x]
          \/ ppc'[x] = "cleanup" /\ ptimedout'[x] /\ pdata'[x] = 0
    /\ (ppc[x] = "relaying" /\ ppc'[x] # "relaying") =>
          /\ ppc'[x] = "cleanup"
          /\ pstream'[x] = "closed" /\ dstream'[pdata[x]] = "closed"
    /\ (ppc[x] = "cleanup" /\ ppc'[x] # "cleanup") =>
          /\ ppc'[x] = "done"
          /\ pendingTCP'[pclient[x]][pid[x]] = 0
          /\ pstream'[x] = "closed"
          /\ pdata[x] # 0 => dstream'[pdata[x]] = "closed"
    /\ ptimedout[x] => ptimedout'[x] /\ pdata'[x] = 0 /\ ppc'[x] # "relaying"
    /\ pdata[x] # 0 => pdata'[x] = pdata[x] /\ ~ptimedout'[x]

\* C29: every pending TCP connection follows CREATED -> PAIRED -> RELAYING ->
\* CLOSED or CREATED -> TIMED_OUT -> CLOSED and never both; when relay ends
\* both connections are closed and the pending entry is removed; a pending
\* connection that timed out is never relayed.
C29_TwoLives == [][\A x \in Pubs : C29_Life(x, FALSE)]_vars

\* C29 as amended: the same, with the third life CREATED -> CLOSED of a
\* pending connection whose OPEN could not be sent.
C29_ThreeLives == [][\A x \in Pubs : C29_Life(x, TRUE)]_vars

\* A pending connection has been paired and relayed and is closed: both
\* connections closed, the pending entry removed, no timeout.
C29_Witness ==
    \E x \in Pubs :
        /\ ppc[x] = "done" /\ pid[x] # 0 /\ pdata[x] # 0 /\ ~ptimedout[x]
        /\ pstream[x] = "closed" /\ dstream[pdata[x]] = "closed"
        /\ pendingTCP[pclient[x]][pid[x]] = 0

(***************************************************************************)
(* DATA connections for a client that is lost, replaced or unregistered    *)
(* while a public connection waits (specification FairSpecLost).           *)
(***************************************************************************)

\* One public connection of the Minecraft proxy and the DATA connections;
\* the first client's read loop can end, a second connection can
\* authenticate for the tunnel, and the tunnel can be stopped.
NextLost ==
    \/ PubDispatch(1, "mc", RdvReg.Subdomain)
    \/ \E id \in ConnIDs : PubPend(1, id)
    \/ PubSendOpen(1)
    \/ PubReceive(1)
    \/ PubTimeout(1)
    \/ RelayEnd(1)
    \/ PubCleanup(1)
    \/ \E d \in DataConns, id \in ConnIDs : DataArrive(d, id)
    \/ \E d \in DataConns : DataDeliver(d)
    \/ StopTunnel(RdvReg.TunnelID)
    \/ ReadLoopEnd(1)
    \/ AuthCleanup(1)
    \/ AuthHandshake(2, "valid", RdvReg.TunnelID)
    \/ AuthLoadAndDelete(2)
    \/ AuthStore(2)
    \/ AuthWriteOK(2)

\* The select of a waiting handler takes its time.After branch unless a data
\* connection arrives first, and the deferred calls run when it returns.
FairSpecLost ==
    /\ InitConnected
    /\ [][NextLost]_vars
    /\ \A x \in Pubs : WF_vars(PubTimeout(x)) /\ WF_vars(PubCleanup(x))

\* Client c is in the tunnel_id -> client index.
InIndex(c) == \E t \in Tunnels : clients[t] = c

\* Public connection x waits for its data connection, the client that was
\* sent its OPEN is not in the index any more, and no DATA connection for it
\* has arrived before that.
C30_Lost(x) ==
    /\ ppc[x] = "waiting"
    /\ ~InIndex(pclient[x])
    /\ dataCh[x] = 0
    /\ \A d \in DataConns :
          ~(dpc[d] = "found" /\ dfound[d] = pclient[x] /\ did[d] = pid[x])

\* The handler of x has ended through the timeout: public connection closed,
\* pending entry removed, nothing relayed.
C30_TimedOut(x) ==
    /\ ppc[x] = "done" /\ ptimedout[x] /\ pdata[x] = 0
    /\ pstream[x] = "closed"
    /\ pendingTCP[pclient[x]][pid[x]] = 0

C30_Step ==
    /\ \A d \in DataConns, id \in ConnIDs :
          DataArrive(d, id) =>
             IF \E c \in Conns : InIndex(c) /\ pendingTCP[c][id] # 0
             THEN InIndex(dfound'[d]) /\ pendingTCP[dfound'[d]][id] # 0
             ELSE /\ dpc'[d] = "done" /\ dstream'[d] = "closed"
                  /\ dfound'[d] = 0 /\ dataCh' = dataCh
    /\ \A x \in Pubs :
          (C30_Lost(x) /\ ppc'[x] # "waiting") => ppc'[x] = "cleanup" /\ ptimedout'[x]

\* C30: a DATA <conn_id> is matched only against the pending tables of the
\* clients that are in the tunnel_id -> client index when it arrives: when
\* the client that was sent the OPEN has been lost, replaced or unregistered
\* before, the DATA connection is not paired, and the waiting proxy ends
\* through the rendezvous timeout, which closes the public connection and
\* removes the pending entry.
C30_DataOnlyForIndexedClients ==
    /\ [][C30_Step]_vars
    /\ \A x \in Pubs : C30_Lost(x) ~> C30_TimedOut(x)

\* A public connection has ended through the timeout after its client left
\* the index, and a DATA connection with its conn_id was closed unpaired.
C30_Witness ==
    \E x \in Pubs, d \in DataConns :
        /\ C30_TimedOut(x) /\ pid[x] # 0
        /\ ~InIndex(pclient[x])
        /\ did[d] = pid[x] /\ dpc[d] = "done" /\ dfound[d] = 0
        /\ dstream[d] = "closed"

(***************************************************************************)
(* Allocation of conn_ids by the proxy handlers (specification SpecID).    *)
(***************************************************************************)

HexDigits == <<"0", "1", "2", "3", "4", "5", "6", "7",
               "8", "9", "a", "b", "c", "d", "e", "f">>

\* ts >> (i * 8)
RECURSIVE ShiftRight8(_, _)
ShiftRight8(ts, i) == IF i = 0 THEN ts ELSE ShiftRight8(ts \div 256, i - 1)

\* byte(ts >> (i * 8)) for i = 0..7
ByteOf(ts, i) == ShiftRight8(ts, i) % 256

\* generateID: the eight bytes of time.Now().UnixNano(), lowest first, in
\* hex.EncodeToString's two digits a byte.
generateID(ts) ==
    [n \in 1..16 |->
        LET b == ByteOf(ts, (n - 1) \div 2)
        IN  HexDigits[(IF n % 2 = 1 THEN b \div 16 ELSE b % 16) + 1]]

\* connID := generateID() and client.pendingTCP.Store(connID, dataCh) of
\* handler k.
GenStore(k) ==
    /\ gpc[k] = "idle"
    /\ gid' = [gid EXCEPT ![k] = generateID(clock)]
    /\ gpc' = [gpc EXCEPT ![k] = "pending"]
    /\ UNCHANGED clock
    /\ UNCHANGED <<regVars, ctlVars, pendingTCP, pubVars, dataVars, relayVars>>
    /\ UNCHANGED <<kaVars, udpVars, cfirst, shutVars, wrVars, hsVars, exVars>>

\* defer client.pendingTCP.Delete(connID) of handler k.
GenDelete(k) ==
    /\ gpc[k] = "pending"
    /\ gpc' = [gpc EXCEPT ![k] = "done"]
    /\ UNCHANGED <<clock, gid>>
    /\ UNCHANGED <<regVars, ctlVars, pendingTCP, pubVars, dataVars, relayVars>>
    /\ UNCHANGED <<kaVars, udpVars, cfirst, shutVars, wrVars, hsVars, exVars>>

\* The clock's next reading differs from the last one.
ClockAdvance ==
    /\ clock < MaxTicks
    /\ clock' = clock + 1
    /\ UNCHANGED <<gpc, gid>>
    /\ UNCHANGED <<regVars, ctlVars, pendingTCP, pubVars, dataVars, relayVars>>
    /\ UNCHANGED <<kaVars, udpVars, cfirst, shutVars, wrVars, hsVars, exVars>>

NextID ==
    \/ \E k \in 1..MaxCalls : GenStore(k)
    \/ \E k \in 1..MaxCalls : GenDelete(k)
    \/ ClockAdvance

SpecID == Init /\ [][NextID]_vars

\* C31: every conn_id allocated for a TCP rendezvous is fresh: no two
\* rendezvous that are pending at the same time have the same conn_id, also
\* when several public connections are dispatched concurrently.
C31_FreshIDs ==
    \A j, k \in 1..MaxCalls :
        (j # k /\ gpc[j] = "pending" /\ gpc[k] = "pending") => gid[j] # gid[k]

(***************************************************************************)
(* The Minecraft handshake of a public connection (specification SpecHS).  *)
(***************************************************************************)

\* Bytes that follow on the stream after the ones written out, all zero.
BigTail == 40000

\* The bytes a peer sends, field by field: the VarInt of the packet length,
\* of the packet id, of the protocol version, of the address length, then
\* the address bytes and tail further zero bytes.  Every VarInt field ends
\* in a byte without the continuation bit or has more than five bytes, and
\* the fifth group of a field is at most 7.
Handshakes ==
    [len : {<<0>>, <<12>>, <<128, 0>>, <<128, 128, 2>>, <<129, 128, 2>>,
            <<140, 128, 128, 128, 0>>, <<128, 128, 128, 128, 1>>,
            <<128, 128, 128, 128, 128, 0>>},
     id : {<<0>>, <<1>>, <<128, 0>>, <<128, 128, 128, 128, 128, 0>>},
     proto : {<<47>>, <<255, 255, 255, 255, 7>>, <<128, 128, 128, 128, 128, 0>>},
     strlen : {<<0>>, <<2>>, <<255, 1>>, <<128, 2>>, <<128, 128, 128, 128, 128, 0>>},
     addr : {<<115, 49>>, <<97, 46>>},
     tail : {0, BigTail}]

\* The stream of handshake h as conn.Read delivers it.
StreamOf(h) == [bs |-> h.len \o h.id \o h.proto \o h.strlen \o h.addr, tail |-> h.tail]
Avail(st) == Len(st.bs) + st.tail
ByteAt(st, i) == IF i <= Len(st.bs) THEN st.bs[i] ELSE 0

\* a | b on non-negative integers
RECURSIVE BitOr(_, _)
BitOr(a, b) ==
    IF a = 0 THEN b
    ELSE IF b = 0 THEN a
    ELSE (IF a % 2 = 1 \/ b % 2 = 1 THEN 1 ELSE 0) + 2 * BitOr(a \div 2, b \div 2)

NotRead == -1

VarIntTooLarge(shift) == shift >= 35

\* readVarInt / readVarIntFrom on the bytes pos..limit of st: the value and
\* the position after it, or an error.
RECURSIVE readVarInt(_, _, _, _, _)
readVarInt(st, pos, limit, result, shift) ==
    IF pos > limit
    THEN [err |-> "EOF", val |-> NotRead, next |-> pos]
    ELSE LET b == ByteAt(st, pos)
             r == BitOr(result, (b % 128) * (2 ^ shift))
         IN  IF b < 128
             THEN [err |-> "", val |-> r, next |-> pos + 1]
             ELSE IF VarIntTooLarge(shift + 7)
                  THEN [err |-> "VarInt too large", val |-> NotRead, next |-> pos + 1]
                  ELSE readVarInt(st, pos + 1, limit, r, shift + 7)

\* The checks on the decoded packet length, packet id and address length.
BadPacketLength(n) == n <= 0 \/ n > 32768

\* Mutant of BadPacketID: every packet id passes.
BadPacketID_Any(n) == FALSE

BadPacketID(n) == n # 0

BadAddressLength(n) == n <= 0 \/ n > 255

NoParse ==
    [err |-> "", pktLen |-> NotRead, pktID |-> NotRead, proto |-> NotRead,
     strLen |-> NotRead, addr |-> <<>>]

\* parseMinecraftHandshake on stream st.  UpToNull is the cut at
\* strings.IndexByte(serverAddr, 0), TrimDot is strings.TrimSuffix(".").
parseMinecraftHandshake(st) ==
    LET RECURSIVE UpToNull(_)
        UpToNull(a) ==
            IF a = <<>> \/ Head(a) = 0 THEN <<>> ELSE <<Head(a)>> \o UpToNull(Tail(a))
        TrimDot(a) == IF a # <<>> /\ a[Len(a)] = 46 THEN SubSeq(a, 1, Len(a) - 1) ELSE a
        l == readVarInt(st, 1, Avail(st), 0, 0)
        r1 == [NoParse EXCEPT !.pktLen = l.val]
    IN  IF l.err # "" \/ BadPacketLength(l.val)
        THEN [r1 EXCEPT !.err = "bad packet length"]
        ELSE
    LET bodyEnd == l.next + l.val - 1
    IN  IF Avail(st) < bodyEnd
        THEN [r1 EXCEPT !.err = "EOF"]
        ELSE
    LET id == readVarInt(st, l.next, bodyEnd, 0, 0)
        r2 == [r1 EXCEPT !.pktID = id.val]
    IN  IF id.err # "" \/ BadPacketID(id.val)
        THEN [r2 EXCEPT !.err = "expected handshake"]
        ELSE
    LET pv == readVarInt(st, id.next, bodyEnd, 0, 0)
        r3 == [r2 EXCEPT !.proto = pv.val]
    IN  IF pv.err # ""
        THEN [r3 EXCEPT !.err = pv.err]
        ELSE
    LET sl == readVarInt(st, pv.next, bodyEnd, 0, 0)
        r4 == [r3 EXCEPT !.strLen = sl.val]
    IN  IF sl.err # "" \/ BadAddressLength(sl.val)
        THEN [r4 EXCEPT !.err = "bad server address length"]
        ELSE IF sl.next + sl.val - 1 > bodyEnd
        THEN [r4 EXCEPT !.err = "EOF"]
        ELSE [r4 EXCEPT !.addr =
                TrimDot(UpToNull([i \in 1..sl.val |-> ByteAt(st, sl.next + i - 1)]))]

\* handleMCConnection up to the parse: on an error the handler returns and
\* its deferred playerConn.Close() runs.
MCParse(x, h) ==
    /\ "mc" \in lopen
    /\ ppc[x] = "new" /\ hsIn[x] = <<>>
    /\ \A y \in Pubs : y < x => ppc[y] # "new"
    /\ LET r == parseMinecraftHandshake(StreamOf(h))
       IN  /\ hsIn' = [hsIn EXCEPT ![x] = h]
           /\ hsOut' = [hsOut EXCEPT ![x] = r]
           /\ pkind' = [pkind EXCEPT ![x] = "mc"]
           /\ IF r.err # ""
              THEN /\ pstream' = [pstream EXCEPT ![x] = "closed"]
                   /\ ppc' = [ppc EXCEPT ![x] = "done"]
              ELSE /\ pstream' = [pstream EXCEPT ![x] = "open"]
                   /\ UNCHANGED ppc
    /\ UNCHANGED <<ptun, pclient, pid, pport, dataCh, pdata, ptimedout, pgot>>
    /\ UNCHANGED <<regVars, ctlVars, pendingTCP, dataVars, relayVars>>
    /\ UNCHANGED <<kaVars, udpVars, cfirst, shutVars, wrVars, idVars, exVars>>

\* The lookups that follow a handshake that parsed.
MCDispatch(x, sub) ==
    /\ hsIn[x] # <<>>
    /\ PubDispatch(x, "mc", sub)

\* One player connects to the Minecraft proxy while a client of the tunnel is
\* connected.
NextHS ==
    \/ \E h \in Handshakes : MCParse(1, h)
    \/ \E sub \in HostSubs : MCDispatch(1, sub)
    \/ \E id \in ConnIDs : PubPend(1, id)
    \/ PubSendOpen(1)

SpecHS == InitConnected /\ [][NextHS]_vars

\* The sum of the 7-bit groups of VarInt field v shifted by 0, 7, 14, 21, 28.
GroupSum(v) ==
    LET g(i) == IF i <= Len(v) THEN (v[i] % 128) * (2 ^ (7 * (i - 1))) ELSE 0
    IN  g(1) + g(2) + g(3) + g(4) + g(5)

\* The field continues past its fifth byte.
PastFifth(v) == Len(v) > 5 /\ \A i \in 1..5 : v[i] >= 128

\* The cases of the claim in which a handshake is rejected.
C32_Rejectable(h) ==
    \/ PastFifth(h.len) \/ PastFifth(h.id) \/ PastFifth(h.proto) \/ PastFifth(h.strlen)
    \/ GroupSum(h.len) < 1 \/ GroupSum(h.len) > 32768
    \/ GroupSum(h.id) # 0
    \/ GroupSum(h.strlen) < 1 \/ GroupSum(h.strlen) > 255

\* The stream holds the whole packet and the packet holds the address.
C32_Complete(h) ==
    /\ Len(h.id) + Len(h.proto) + Len(h.strlen) + GroupSum(h.strlen) <= GroupSum(h.len)
    /\ Len(h.id) + Len(h.proto) + Len(h.strlen) + Len(h.addr) + h.tail >= GroupSum(h.len)

C32_Step ==
    \A x \in Pubs :
        hsIn'[x] # hsIn[x] =>
            LET h == hsIn'[x]
                r == hsOut'[x]
            IN  /\ C32_Rejectable(h) =>
                     /\ r.err # ""
                     /\ pstream'[x] = "closed" /\ ppc'[x] = "done"
                     /\ UNCHANGED <<regVars, ctlVars, pendingTCP, dataVars>>
                     /\ \A y \in Pubs \ {x} : pstream'[y] = pstream[y]
                /\ (~C32_Rejectable(h) /\ C32_Complete(h)) => r.err = ""
                /\ ~PastFifth(h.len) => r.pktLen = GroupSum(h.len)
                /\ r.pktID # NotRead => r.pktID = GroupSum(h.id)
                /\ r.proto # NotRead => r.proto = GroupSum(h.proto)
                /\ r.strLen # NotRead => r.strLen = GroupSum(h.strlen)
                /\ r.err = "" => r.proto # NotRead /\ r.strLen # NotRead

\* C32: a Minecraft handshake is rejected, closing only that public
\* connection with no OPEN sent and no table changed, whenever the packet
\* length is outside [1, 32768], a VarInt continues past its fifth byte, the
\* packet id is not 0x00 or the address string length is outside [1, 255]; a
\* VarInt of at most five bytes is accepted and decoded as the sum of its
\* 7-bit groups shifted by 0, 7, 14, 21 and 28 bits.
C32_HandshakeRejected == [][C32_Step]_vars

\* A handshake whose packet length continues past its fifth byte has been
\* rejected, and its public connection is closed.
C32_Witness ==
    /\ hsIn[1] # <<>> /\ PastFifth(hsIn[1].len)
    /\ hsOut[1].err # "" /\ pstream[1] = "closed" /\ ppc[1] = "done"

(***************************************************************************)
(* The subdomain of a public connection (specification SpecExtract).       *)
(***************************************************************************)

\* The characters of an address, one string each, and the base domains the
\* server can be configured with.
Chars == {"m", "s", "D", ".", ":"}
Domains == {<<"d">>, <<"D">>}

RECURSIVE StringsUpTo(_)
StringsUpTo(n) ==
    IF n = 0 THEN {<<>>}
    ELSE LET shorter == StringsUpTo(n - 1)
         IN  shorter \cup {Append(a, c) : a \in {b \in shorter : Len(b) = n - 1}, c \in Chars}

\* Mutant of ToLower: the string as it is.
ToLower_Same(a) == a

\* strings.ToLower
ToLower(a) == [i \in 1..Len(a) |-> IF a[i] = "D" THEN "d" ELSE a[i]]

\* net.SplitHostPort on an address without brackets: the host before the one
\* colon, or an error for no colon and for more than one.
SplitHostPort(a) ==
    LET colons == {i \in 1..Len(a) : a[i] = ":"}
    IN  IF Cardinality(colons) = 1
        THEN LET i == CHOOSE j \in colons : TRUE
             IN  [err |-> "", host |-> SubSeq(a, 1, i - 1)]
        ELSE [err |-> IF colons = {} THEN "missing port in address"
                      ELSE "too many colons in address",
              host |-> <<>>]

\* strings.HasSuffix
HasSuffix(a, suffix) ==
    /\ Len(a) >= Len(suffix)
    /\ SubSeq(a, Len(a) - Len(suffix) + 1, Len(a)) = suffix

\* strings.Split(a, "."): the parts between the dots, in order.
RECURSIVE Split(_)
Split(a) ==
    IF \A i \in 1..Len(a) : a[i] # "."
    THEN <<a>>
    ELSE LET i == CHOOSE j \in 1..Len(a) :
                      a[j] = "." /\ \A k \in 1..(j - 1) : a[k] # "."
         IN  <<SubSeq(a, 1, i - 1)>> \o Split(SubSeq(a, i + 1, Len(a)))

\* extractSubdomainFromAddr
extractSubdomainFromAddr(addr0, domain0) ==
    LET hp == SplitHostPort(addr0)
        addr == ToLower(IF hp.err = "" THEN hp.host ELSE addr0)
        domain == ToLower(domain0)
        suffix == <<".">> \o domain
    IN  IF ~HasSuffix(addr, suffix)
        THEN Split(addr)[1]
        ELSE LET prefix == SubSeq(addr, 1, Len(addr) - Len(suffix))
                 parts == Split(prefix)
             IN  parts[Len(parts)]

\* The handler of public connection x has the address a (the server address
\* of the handshake, or the Host header): handleHTTPConnection strips the
\* port, both call extractSubdomainFromAddr and return on an empty result.
ExtractSub(x, kind, a, d) ==
    /\ kind \in lopen
    /\ ppc[x] = "new" /\ exIn[x] = <<>>
    /\ \A y \in Pubs : y < x => ppc[y] # "new"
    /\ kind = "http" => a # <<>>
    /\ LET hp == SplitHostPort(a)
           host == IF kind = "http" /\ hp.err = "" THEN hp.host ELSE a
           subdomain == extractSubdomainFromAddr(host, d)
       IN  /\ exIn' = [exIn EXCEPT ![x] = [addr |-> host, domain |-> d]]
           /\ exOut' = [exOut EXCEPT ![x] = subdomain]
           /\ pkind' = [pkind EXCEPT ![x] = kind]
           /\ IF subdomain = <<>>
              THEN /\ pstream' = [pstream EXCEPT ![x] = "closed"]
                   /\ ppc' = [ppc EXCEPT ![x] = "done"]
              ELSE /\ pstream' = [pstream EXCEPT ![x] = "open"]
                   /\ UNCHANGED ppc
    /\ UNCHANGED <<ptun, pclient, pid, pport, dataCh, pdata, ptimedout, pgot>>
    /\ UNCHANGED <<regVars, ctlVars, pendingTCP, dataVars, relayVars>>
    /\ UNCHANGED <<kaVars, udpVars, cfirst, shutVars, wrVars, idVars, hsVars>>

NextExtract ==
    /\ exIn[1] = <<>>
    /\ \E kind \in {"mc", "http"}, a \in StringsUpTo(MaxAddrLen), d \in Domains :
           ExtractSub(1, kind, a, d)

SpecExtract == InitConnected /\ [][NextExtract]_vars

\* The label of a that starts at its beginning, and the one that ends at its
\* end: the longest run without a dot.
FirstLabel(a) ==
    LET n == CHOOSE k \in 0..Len(a) :
                 /\ \A i \in 1..k : a[i] # "."
                 /\ k < Len(a) => a[k + 1] = "."
    IN  SubSeq(a, 1, n)
LastLabel(a) ==
    LET n == CHOOSE k \in 0..Len(a) :
                 /\ \A i \in (Len(a) - k + 1)..Len(a) : a[i] # "."
                 /\ k < Len(a) => a[Len(a) - k] = "."
    IN  SubSeq(a, Len(a) - n + 1, Len(a))

\* The subdomain the rule gives for the lower-cased address a and suffix
\* "." + d.
C33_Rule(a, d) ==
    IF HasSuffix(a, <<".">> \o d)
    THEN LastLabel(SubSeq(a, 1, Len(a) - Len(d) - 1))
    ELSE FirstLabel(a)

\* A letter in lower case, spelled out.
C33_Lower(a) == [i \in 1..Len(a) |-> IF a[i] \in {"D", "d"} THEN "d" ELSE a[i]]

\* The address without the port that follows its only colon.
C33_Host(a) ==
    IF Cardinality({i \in 1..Len(a) : a[i] = ":"}) = 1
    THEN SubSeq(a, 1, (CHOOSE i \in 1..Len(a) : a[i] = ":") - 1)
    ELSE a

C33_Empty(x) == exOut[x] = <<>> => (pstream[x] = "closed" /\ ppc[x] = "done")

\* C33 as stated: for every address a and base domain d the result is the
\* last label of the part of the lower-cased address before the suffix
\* "." + d when it ends with that suffix, and otherwise the first label of
\* the address; an empty result is a routing failure in both proxies.
C33_ExtractAsStated ==
    \A x \in Pubs :
        exIn[x] # <<>> =>
            /\ exOut[x] = C33_Rule(C33_Lower(exIn[x].addr), exIn[x].domain)
            /\ C33_Empty(x)

\* C33, amended: the rule holds of the address without its port and of the
\* lower-cased base domain.
C33_ExtractOfHost ==
    \A x \in Pubs :
        exIn[x] # <<>> =>
            /\ exOut[x] = C33_Rule(C33_Lower(C33_Host(exIn[x].addr)),
                                   C33_Lower(exIn[x].domain))
            /\ C33_Empty(x)

\* The Minecraft proxy has extracted s from the address s.D: under the base
\* domain d.
C33_Witness ==
    /\ exIn[1] # <<>> /\ pkind[1] = "mc"
    /\ exIn[1].addr = <<"s", ".", "D", ":">> /\ exIn[1].domain = <<"d">>
    /\ exOut[1] = <<"s">> /\ pstream[1] = "open"

(***************************************************************************)
(* Concurrent handshakes for one tunnel (specification SpecReplace).       *)
(***************************************************************************)

\* C34: if two AUTH handshakes for the same tunnel_id pass validation
\* concurrently, then once both have finished the replacement step every
\* control stream that authenticated for that tunnel_id and is not the one
\* held in the index has been closed: no authenticated client is left with
\* an open stream and a running read loop while absent from the index.
C34_NoClientOutsideIndex ==
    \A c \in Conns :
        (/\ cpc[c] \in {"ok", "reading"}
         /\ \A d \in Conns : ctun[d] = ctun[c] => cpc[d] \notin {"replace", "store"}
         /\ clients[ctun[c]] # c)
            => cstream[c] = "closed"

(***************************************************************************)
(* What becomes of a DATA connection (specification FairSpecData).         *)
(***************************************************************************)

\* As FairSpecRdv, and the handler of a DATA connection that has found a
\* client goes on to its send into the channel.
FairSpecData ==
    /\ InitConnected
    /\ [][NextWait]_vars
    /\ \A x \in Pubs : WF_vars(PubTimeout(x)) /\ WF_vars(PubCleanup(x))
    /\ \A d \in DataConns : WF_vars(DataDeliver(d))

\* Data connection d has been received by a proxy, which relays it and
\* closes it afterwards, or the server has closed it.
C35_RelayedOrClosed(d) ==
    \/ dstream[d] = "closed"
    \/ \E x \in Pubs : pdata[x] = d /\ \A y \in Pubs \ {x} : pdata[y] # d

\* C35: every data connection the server has answered with OK is eventually
\* either relayed with exactly one public connection or closed by the
\* server; one placed into a rendezvous slot at the moment the waiting proxy
\* times out, or into a slot whose proxy has already taken a connection, is
\* never left open with no task owning it.
C35_DataNeverOrphaned ==
    \A d \in DataConns : (dstream[d] = "open") ~> C35_RelayedOrClosed(d)

(***************************************************************************)
(* The first line on a control channel (specification SpecReplace).        *)
(***************************************************************************)

\* C36: on a control channel the OK reply to AUTH is the first line the
\* client receives: no OPEN, UDP_PKT or PING for that client is written to
\* the stream before the OK, in any interleaving of the handshake with the
\* proxy dispatches and UDP packet tasks that find the client in the index.
C36_OKFirst ==
    \A c \in Conns :
        \A i \in 1..Len(cout[c]) :
            cout[c][i] \in Senders => \E j \in 1..(i - 1) : cout[c][j] = "OK"

(***************************************************************************)
(* UDP_REPLY lines of the clients of two tunnels (specification SpecCross).*)
(***************************************************************************)

\* A second tunnel, without a public UDP port.
OtherReg ==
    [TunnelID |-> "t2", Subdomain |-> "s2", MCLocalPort |-> DefaultMCPort,
     HTTPLocalPort |-> 0, UDPLocalPort |-> 24454, UDPPublicPort |-> 0]

\* Tunnel t1 with its UDP listener and its client on connection 1, tunnel t2
\* with its client on connection 2, the players of t1, and the UDP_REPLY
\* lines of both clients.
NextCross ==
    \/ StartTunnel(UDPReg)
    \/ StartTunnel(OtherReg)
    \/ \E i \in 1..MaxGo : UDPListen(i)
    \/ \E i \in 1..MaxGo : UDPStore(i)
    \/ AuthHandshake(1, "valid", UDPReg.TunnelID)
    \/ AuthHandshake(2, "valid", OtherReg.TunnelID)
    \/ \E c \in Conns : AuthLoadAndDelete(c)
    \/ \E c \in Conns : AuthStore(c)
    \/ \E c \in Conns : AuthWriteOK(c)
    \/ \E a \in Addrs : UDPPacket(UDPReg.UDPPublicPort, UDPReg.TunnelID, a)
    \/ \E c \in Conns, a \in Addrs : UDPReply(c, a)

SpecCross == Init /\ [][NextCross]_vars

C37_Step ==
    \A c \in Conns, a \in Addrs :
        (UDPReply(c, a) /\ udpReply'[a] = "written") =>
            /\ portOwners[udpOut'.port] = ctun[c]
            /\ portOwners[udpPlayerMap[a].port] = ctun[c]

\* C37: a UDP_REPLY sent by the client of tunnel T causes a datagram to be
\* emitted only from the UDP listener owned by T and only to a peer that has
\* sent a datagram to T's public UDP port; a client can never make the
\* server send a datagram from another tunnel's listener or to another
\* tunnel's peer by naming that peer's conn_id.
C37_ReplyStaysInTunnel == [][C37_Step]_vars

(***************************************************************************)
(* The mc_local_port index under public connections (specification SpecMC).*)
(***************************************************************************)

\* C38: handling public Minecraft or HTTP connections never modifies the
\* routing indices: after any interleaving of public connections with
\* register and unregister calls, tunnel_id -> mc_local_port has an entry
\* only for tunnels that are currently registered.
C38_MCPortOnlyIfRegistered ==
    \A t \in Tunnels : tunnelMCPort[t] # 0 => registered[t] # NoReg

(***************************************************************************)
(* The listener of a public UDP port and the port's registration           *)
(* (specification SpecPkt).                                                *)
(***************************************************************************)

\* C39: every datagram arriving on public UDP port p is forwarded to the
\* client of the tunnel currently registered with udp_public_port p, with
\* that registration's udp_local_port: after any sequence of register and
\* unregister calls on p the tunnel_id and local port used by the listener
\* on p equal portOwners[p] and portLocalMap[p].
C39_ListenerMatchesOwner ==
    \A p \in udpListeners :
        /\ udpLoop[p].tunnelID = portOwners[p]
        /\ udpLoop[p].localPort = portLocalMap[p]

====
